---- MODULE Spec2Model ----
(***************************************************************************)
(* Host side of one wetlands ExternalEnvironment: the per-environment      *)
(* re-entrant lock, launch / launched / execute / runScript / exit /       *)
(* delete / update, the worker processes it spawns, the log pump that      *)
(* parses the port announcement, and the connection to the worker.         *)
(* Host threads call the methods concurrently; worker processes and the    *)
(* pump are the environment.                                               *)
(***************************************************************************)
EXTENDS Integers, Sequences, FiniteSets, TLC

\* ------------------------------------------------------------------ bounds
\* Number of worker processes the environment may spawn in a behaviour.
MaxProcs == 2
\* Frames the worker may have queued towards the host at once.
MaxQueue == 2
\* Frames that are not terminal the worker may send during one request.
MaxSkipped == 2

\* --------------------------------------------------------------- constants
Threads == {"t1", "t2"}
Pids == 1..MaxProcs
\* process: subprocess.Popen | None = None
NoProc == 0
\* port: int | None = None
NoPort == 0
\* errno 9, bad file descriptor
EBADF == 9
\* errno 32, broken pipe (BrokenPipeError is the OSError of EPIPE)
EPIPE == 32
\* errno 104, connection reset by peer (an OSError that is not handled)
ECONNRESET == 104
\* the port a worker announces; the tests announce 5000
BasePort == 5000
PortOf(p) == BasePort + p

Ops == {"execute", "runScript", "launch", "launched", "exit", "delete", "update"}

Results == {"r1", "r2"}
ExceptionStrings == {"A fake error occurred", "Module m has no function f."}
Tracebacks == {<<"line 1", "line 2">>}

\* Worker -> host frames, as records with every field present.
Frame(a, r, e, tb) == [action |-> a, result |-> r, exception |-> e, traceback |-> tb]
FinishedFrames == {Frame("execution finished", r, "", <<>>) : r \in Results}
ErrorFrames == {Frame("error", "", e, tb) : e \in ExceptionStrings, tb \in Tracebacks}
OtherFrames == {Frame("exited", "", "", <<>>)}
TerminalFrames == FinishedFrames \cup ErrorFrames
\* `while message := connection.recv()`: a frame is a non-empty dict.
Truthy(m) == m.action # ""

\* Exceptions the connection raises when the peer is gone.
CommError(ty, no) == [type |-> ty, errno |-> no]
SendErrors == {CommError("BrokenPipeError", EPIPE), CommError("OSError", EBADF),
               CommError("OSError", ECONNRESET)}
RecvErrors == {CommError("EOFError", 0), CommError("OSError", EBADF),
               CommError("OSError", ECONNRESET)}

\* Results of a call, as seen by the caller.
\* kind: "pending" (the call is under way), "raising" (an exception is
\* propagating inside _sendAndWait), "return", "raise"; value: the returned
\* value or the exception type; log: the last message the call logged;
\* skipped: how many frames the receive loop logged and skipped.
Pending == [kind |-> "pending", value |-> "", exception |-> "", traceback |-> <<>>,
            errno |-> 0, log |-> "", skipped |-> 0]
Return(v) == [Pending EXCEPT !.kind = "return", !.value = v]
Raise(ty, msg) == [Pending EXCEPT !.kind = "raise", !.value = ty, !.exception = msg]
Raising(e) == [Pending EXCEPT !.kind = "raising", !.value = e.type, !.errno = e.errno]
Logged(o, msg) == [o EXCEPT !.log = msg]

VARIABLES
    lockOwner,     \* self._lock: the thread holding it, or "none"
    pc,            \* per thread: where it is in its call
    op,            \* per thread: the method it is calling
    outcome,       \* per thread: what the call returns or raises
    process,       \* self.process: pid of the last spawned process, or NoProc
    port,          \* self.port
    connection,    \* self.connection (host-side handle)
    wire,          \* frames in flight on the current connection
    procs,         \* every process the environment spawned: "unspawned",
                   \* "starting" (runs, port not announced yet), "listening"
                   \* (runs, port line handed to launch_callback), "dead"
    portFound,     \* port_found_event of the launch under way is set
    spawnCount,    \* number of processes spawned so far
    existsOnDisk,  \* environmentExists(self.path)
    registry       \* environments[name]: "this" instance, "other" instance, "none"

\* The EnvironmentManager and the instances it constructed.
VARIABLES
    environments,  \* EnvironmentManager.environments: name -> environment
    instances,     \* the ExternalEnvironment objects constructed so far
    mainPath,      \* mainEnvironment.path is not None
    call           \* the last call of the manager: arguments, result, commands run

managerVars == <<environments, instances, mainPath, call>>

\* The worker's module executor, the client of its connection, and the
\* execute() of the Internal environment.
VARIABLES
    message,       \* the execute requests the worker received, by request
    thread,        \* where the functionExecutor thread of each request is
    sent,          \* the frames the worker sent on the connection, in order
    answer,        \* what execute() gave its caller, by request
    called         \* the function named by the request was called, by request

executorVars == <<message, thread, sent, answer, called>>

\* The log callbacks of one ExternalEnvironment and the pump of its worker's
\* output.
VARIABLES
    global_log_callback,     \* _global_log_callback: "none" or a callback
    execution_log_callback,  \* _execution_log_callback: "none" or a callback
    executing,               \* an execute() or runScript() is under way
    pump,                    \* the pump thread: where it is, the line it holds
    delivered,               \* the invocations of callbacks so far, in order
    steady,                  \* by callback: registered since the line was read
    emitted                  \* by line the worker wrote: written during the call under way

pumpVars == <<global_log_callback, execution_log_callback, executing, pump,
              delivered, steady, emitted>>

\* One call of exit(), delete(), execute() or runScript() on an
\* ExternalEnvironment, statement by statement.
VARIABLES
    stepping,      \* the call under way: its arguments, the statement it is at
    fields,        \* the fields of the environment and what they refer to
    effects        \* what the call under way did so far, in order

stepVars == <<stepping, fields, effects>>

\* The registry of a manager whose environments are created and loaded under
\* several names, with the directories they refer to.
VARIABLES
    registered,    \* EnvironmentManager.environments: name -> path of its instance
    existing,      \* the paths p for which environmentExists(p) holds
    answered       \* the last call on the registry and how it ended

pathVars == <<registered, existing, answered>>

\* One call of CommandExecutor.getOutput(process, commands, log, strip).
VARIABLES
    subprocess,    \* the process: its state, the lines it has yet to hand over
    capture        \* the call: the statement it is at, its outputs, its result

outputVars == <<subprocess, capture>>

\* Calls of EnvironmentManager._checkRequirement.
VARIABLES
    checked        \* the last call: its arguments and the value it returned

\* The threads of the worker: the one that runs launchListener and the
\* functionExecutor threads it starts.
VARIABLES
    lock,          \* the threading.Lock of launchListener: the threads inside `with lock`
    threads,       \* per thread: the statement it is at
    sending,       \* the threads inside connection.send
    frames,        \* the frames the worker sent, in order
    sockets        \* the listener and the connections it accepted

workerVars == <<lock, threads, sending, frames, sockets>>

\* Launches in debug mode: the file debug_ports.json and, per environment,
\* the thread that calls launch() and the thread that pumps the worker's lines.
VARIABLES
    debugPorts,    \* debug_ports.json: name -> debug port, 0 for no entry
    debugging      \* per environment: where launch() and the pump are

debugVars == <<debugPorts, debugging>>

\* One script made and run by CommandExecutor.executeCommands.
VARIABLES
    script         \* its commands and lines, the line the shell is at, what ran

\* The components below the pump.
laterVars == <<stepVars, pathVars, outputVars, checked, workerVars, script, debugVars>>

\* What the manager's operations leave alone.
beyond == <<executorVars, pumpVars, laterVars>>

\* What the operations of one ExternalEnvironment leave alone.
others == <<managerVars, beyond>>

vars == <<lockOwner, pc, op, outcome, process, port, connection, wire, procs,
          portFound, spawnCount, existsOnDisk, registry, others>>

\* What execute() and the worker's executor leave alone.
besidesExecutor ==
    <<lockOwner, pc, op, outcome, process, port, connection, wire, procs,
      portFound, spawnCount, existsOnDisk, registry, managerVars, pumpVars,
      laterVars>>

\* What the log callbacks and the pump leave alone.
besidesPump ==
    <<lockOwner, pc, op, outcome, process, port, connection, wire, procs,
      portFound, spawnCount, existsOnDisk, registry, managerVars, executorVars,
      laterVars>>

\* What the components below the pump leave alone.
earlier ==
    <<lockOwner, pc, op, outcome, process, port, connection, wire, procs,
      portFound, spawnCount, existsOnDisk, registry, managerVars, executorVars,
      pumpVars>>

\* What a call taken statement by statement leaves alone.
besidesSteps == <<earlier, pathVars, outputVars, checked, workerVars, script, debugVars>>

\* What the calls on the registry of paths leave alone.
besidesPaths == <<earlier, stepVars, outputVars, checked, workerVars, script, debugVars>>

\* What a call of getOutput leaves alone.
besidesOutput == <<earlier, stepVars, pathVars, checked, workerVars, script, debugVars>>

\* What a call of _checkRequirement leaves alone.
besidesRequirement == <<earlier, stepVars, pathVars, outputVars, workerVars, script, debugVars>>

\* What the launches in debug mode leave alone.
besidesDebug == <<earlier, stepVars, pathVars, outputVars, checked, workerVars, script>>

\* What a script leaves alone.
besidesScript == <<earlier, stepVars, pathVars, outputVars, checked, workerVars, debugVars>>

\* What the threads of the worker leave alone.
besidesWorker == <<earlier, stepVars, pathVars, outputVars, checked, script, debugVars>>

\* ----------------------------------------------------------------- helpers
NoConnection == [exists |-> FALSE, peer |-> NoProc, closed |-> FALSE,
                 readable |-> FALSE, writable |-> FALSE]
\* Client(("localhost", port)): a duplex connection to the process listening there.
Client(p) == [exists |-> TRUE, peer |-> p, closed |-> FALSE,
              readable |-> TRUE, writable |-> TRUE]
EmptyWire == [toWorker |-> <<>>, toHost |-> <<>>]
Alive(ps) == {p \in Pids : ps[p] \in {"starting", "listening"}}

\* process.poll(): None while the process runs
Poll(p) == IF p \in Alive(procs) THEN "None" ELSE "returncode"

\* Variant: launched() without process.poll().
LaunchedWithoutPoll ==
    /\ process # NoProc
    /\ connection.exists
    /\ ~connection.closed
    /\ connection.writable
    /\ connection.readable

\* ExternalEnvironment.launched (the body, evaluated under the lock)
Launched ==
    /\ process # NoProc
    /\ Poll(process) = "None"
    /\ connection.exists
    /\ ~connection.closed
    /\ connection.writable
    /\ connection.readable

\* The peer of the current connection still runs (its end of the socket is open).
PeerAlive == connection.exists /\ connection.peer \in Alive(procs)

\* Variant: the methods are not synchronized.
LockAvailableUnsynchronized(t) == TRUE

\* `with self._lock` on a threading.RLock: free, or already held by the caller.
LockAvailable(t) == lockOwner \in {"none", t}

\* CommandExecutor.killProcess(process): the process and its descendants are
\* killed; None is ignored.
KillProcess(ps, p) ==
    IF p = NoProc THEN ps ELSE [ps EXCEPT ![p] = "dead"]

\* The state changes of ExternalEnvironment._exit, as the pair
\* <<connection, procs>> after it.
ExitEffect ==
    <<IF connection.exists THEN [connection EXCEPT !.closed = TRUE] ELSE connection,
      KillProcess(procs, process)>>

\* What is left of the two directions of the socket: frames towards a worker
\* that no longer runs are lost with it, frames towards a closed host end can
\* no longer be read.
Hangup(w, conn, ps) ==
    [toWorker |-> IF conn.exists /\ conn.peer \in Alive(ps) THEN w.toWorker ELSE <<>>,
     toHost   |-> IF conn.exists /\ ~conn.closed THEN w.toHost ELSE <<>>]

\* ------------------------------------------- the manager's registry: values
MaxInstances == 2
InstanceIds == 1..MaxInstances
Names == {"env_a"}

\* What create() returns or the registry holds under a name: nothing, the
\* manager's mainEnvironment, or one ExternalEnvironment object.
Absent == [kind |-> "absent", id |-> 0]
Main == [kind |-> "main", id |-> 0]
External(i) == [kind |-> "external", id |-> i]

\* ExternalEnvironment(name, path, manager): process and connection are None.
NewExternalEnvironment(n) == [name |-> n, process |-> NoProc, connection |-> "none"]
Unconstructed == [name |-> "", process |-> NoProc, connection |-> "none"]

\* Python version texts, one character per element.
NoPython == <<>>
\* Dependency sets: {} and None both read as no python, no conda, no pip.
NoDependencies == [python |-> NoPython, conda |-> <<>>, pip |-> <<>>]
\* A call of the manager or of one of its environments (self): its arguments,
\* what the reconciler answered ("not asked", "met", "unmet"), what it
\* returned or raised, and the commands it ran.
NoCall == [op |-> "none", self |-> Absent, name |-> "", dependencies |-> NoDependencies,
           forceExternal |-> FALSE, reconciler |-> "not asked", result |-> Absent,
           raised |-> "", commands |-> <<>>]

\* ------------------------------------------------ execute(): the values
MaxRequests == 2
Requests == 1..MaxRequests

\* What a user's module does when it is imported and its function called:
\* the import succeeds or raises, the module defines the function or not,
\* the function returns, raises an Exception or calls sys.exit(), and what
\* it returns can be pickled or not.
Module(i, d, b, p) == [imports |-> i, defines |-> d, body |-> b, picklable |-> p]
Modules ==
    {Module(FALSE, FALSE, "returns", TRUE), Module(TRUE, FALSE, "returns", TRUE),
     Module(TRUE, TRUE, "returns", TRUE),   Module(TRUE, TRUE, "returns", FALSE),
     Module(TRUE, TRUE, "raises", TRUE),    Module(TRUE, TRUE, "exits", TRUE)}

\* The function of the modules: def prod(x, y=1): return x * y.
DefaultY == 1
Prod(x, y) == x * y
\* Keyword arguments: {} or {"y": 2}.
NoKwargs == [given |-> FALSE, y |-> DefaultY]
Kwargs == {NoKwargs, [given |-> TRUE, y |-> 2]}
Args == {2, 3}

\* execute(modulePath, function, args, kwargs) on an environment.
ExecuteCall(e, m, x, kw) == [environment |-> e, module |-> m, args |-> x, kwargs |-> kw]
NoMessage == ExecuteCall("none", Module(FALSE, FALSE, "returns", TRUE), 0, NoKwargs)
ExecuteCalls ==
    {ExecuteCall(e, m, x, kw) : e \in {"internal", "external"}, m \in Modules,
                                x \in Args, kw \in Kwargs}

\* The texts of the exceptions.
HasNoFunction == "Module has no function"
ImportFailed == "No module named"
FunctionRaised == "raised by the function"
CannotPickle == "cannot pickle"

\* A functionExecutor thread: where it is, with its local result and the
\* exception it caught.
ThreadAt(a, r, e) == [at |-> a, result |-> r, exception |-> e]
NoThread == ThreadAt("none", 0, "")

\* The frames of the worker. `request` tells which request the thread that
\* sent the frame was started for; the frame on the socket does not carry it.
FinishedFrame(r, v) == [request |-> r, action |-> "execution finished", result |-> v, exception |-> ""]
ErrorFrame(r, e) == [request |-> r, action |-> "error", result |-> 0, exception |-> e]

\* What execute() gave its caller.
NotAsked == [state |-> "not asked", result |-> 0, raised |-> ""]
Waiting == [state |-> "waiting", result |-> 0, raised |-> ""]
Returned(v) == [state |-> "returned", result |-> v, raised |-> ""]
Raised(e) == [state |-> "raised", result |-> 0, raised |-> e]

\* Nothing executed yet.
ExecutorNew ==
    /\ message = [r \in Requests |-> NoMessage]
    /\ thread = [r \in Requests |-> NoThread]
    /\ sent = <<>>
    /\ answer = [r \in Requests |-> NotAsked]
    /\ called = [r \in Requests |-> FALSE]

\* ------------------------------------------------ log callbacks: the values
MaxLines == 3
\* The callbacks a caller may hand to launch() and to execute().
GlobalCallback == "global"
ExecutionCallback == "execution"
Callbacks == {GlobalCallback, ExecutionCallback}
\* The pump thread of a process: not started, or at a place of its loop
\* with the number of the line it read last.
PumpAt(a, n) == [at |-> a, line |-> n]
\* One invocation of a callback with a line; it returned or raised.
Invocation(cb, n, r) == [callback |-> cb, line |-> n, raised |-> r]

\* ExternalEnvironment.__init__: no callback, no process.
PumpNew ==
    /\ global_log_callback = "none"
    /\ execution_log_callback = "none"
    /\ executing = FALSE
    /\ pump = PumpAt("not started", 0)
    /\ delivered = <<>>
    /\ steady = [cb \in Callbacks |-> FALSE]
    /\ emitted = <<>>

\* --------------------------------------- calls statement by statement: values
\* The arguments of a call. modulePath is given as a str or as a Path, kwargs
\* is left out, {} or {"y": 2}, run_name is left out or given.
MethodCall(n, cb, path, kw, rn) ==
    [name |-> n, log_callback |-> cb, path |-> path, kwargs |-> kw, run_name |-> rn]
NoMethod == MethodCall("none", "none", "str", "omitted", "omitted")
MethodCalls ==
    {MethodCall(n, "none", "str", "omitted", "omitted") : n \in {"exit", "delete"}}
    \cup {MethodCall("execute", cb, path, kw, "omitted") :
              cb \in {"none", "callback"}, path \in {"str", "Path"},
              kw \in {"omitted", "empty", "y=2"}}
    \cup {MethodCall("runScript", cb, path, "omitted", rn) :
              cb \in {"none", "callback"}, path \in {"str", "Path"},
              rn \in {"omitted", "main2"}}

\* A call under way: at a statement, with what it will return or raise.
SteppingAt(m, a, r) == [method |-> m, at |-> a, result |-> r]

\* ExternalEnvironment(name, path, manager) as create() leaves it: registered,
\* its directory on disk, no process, no connection, no callback.
FieldsNew ==
    [path |-> "set", connection |-> "none", process |-> "none", stdout |-> "none",
     children |-> "none", onDisk |-> TRUE, registered |-> TRUE,
     execution_log_callback |-> "none"]

StepsNew ==
    /\ stepping = SteppingAt(NoMethod, "idle", "none")
    /\ fields = FieldsNew
    /\ effects = <<>>

\* The names environments are created and loaded under.
LoadNames == {"env_a", "env_b"}
NoPath == "none"
\* settingsManager.getEnvironmentPathFromName(name): <root>/envs/<name>.
EnvironmentPathFromName(n) ==
    CASE n = "env_a" -> "root/envs/env_a"
      [] n = "env_b" -> "root/envs/env_b"
\* A directory of an environment made outside of this manager.
ForeignPath == "elsewhere/envs/shared"
Paths == {EnvironmentPathFromName(n) : n \in LoadNames} \cup {ForeignPath}
Answer(o, n, r) == [op |-> o, name |-> n, result |-> r]

\* EnvironmentManager.__init__ next to one environment made earlier: nothing
\* is registered, the directory of the earlier environment exists.
PathsNew ==
    /\ registered = [n \in LoadNames |-> NoPath]
    /\ existing = {ForeignPath}
    /\ answered = Answer("none", "none", "none")

\* Lines a process writes, as sequences of pieces of text.
MaxOutput == 2
Whitespace == {" ", "\n"}
OutputLines ==
    {<<"Hello", "\n">>, <<" ", "Hello", " ", "World", " ", "\n">>,
     <<"CondaSystemExit", "\n">>, <<" ", "Exiting", " ", "CondaSystemExit", "\n">>}
Outputs == UNION {[1..k -> OutputLines] : k \in 0..MaxOutput}
Killed == -9
NoProcess ==
    [state |-> "none", piped |-> FALSE, stdout |-> <<>>, written |-> <<>>,
     exitcode |-> 0, returncode |-> 0]
NoCapture == [at |-> "idle", strip |-> FALSE, outputs |-> <<>>]

\* No command was run yet.
OutputNew ==
    /\ subprocess = NoProcess
    /\ capture = NoCapture

\* Requirements and installed packages. A text is a sequence of characters,
\* a package name or a channel name counting as one character.
RequirementTexts ==
    {<<"numpy">>,
     <<"numpy", "=", "=", "1", ".", "2", "0", ".", "0">>,
     <<"numpy", "=", "=", "1", ".", "2">>,
     <<"numpy", ">", "=", "1", ".", "2", "0", ".", "0">>,
     <<"numpy", "<", "2", ".", "0">>,
     <<"numpy", ">", "=", "1", ".", "2", "0", ",", "<", "2", ".", "0">>,
     <<"numpy", "~", "=", "1", ".", "2", "0">>,
     <<"numpy", "!", "=", "1", ".", "1", "9", ".", "5">>,
     <<"conda-forge", ":", ":", "numpy", "=", "=", "1", ".", "2", "0", ".", "0">>,
     <<"scipy">>}
VersionTexts ==
    {<<"1", ".", "2", "0", ".", "0">>, <<"1", ".", "1", "9", ".", "5">>,
     <<"2", ".", "1", ".", "0">>}
Package(n, v, k) == [name |-> n, version |-> v, kind |-> k]
\* What getInstalledPackages returned: no package, or one numpy.
InstalledLists ==
    {<<>>} \cup {<<Package(<<"numpy">>, v, k)>> : v \in VersionTexts, k \in {"conda", "pypi"}}
NotChecked == [dependency |-> <<>>, packageManager |-> "none", installed |-> <<>>,
               value |-> FALSE]

RequirementNew == checked = NotChecked

\* The threads of the worker: the main thread and the executor threads; the
\* connections a worker is followed through.
MaxTasks == 2
MaxConnections == 2
MainThread == 0
Tasks == 1..MaxTasks
WorkerThreads == {MainThread} \cup Tasks

\* The worker at the start of launchListener: the lock is free, the main
\* thread is about to accept a connection, no executor thread was started.
WorkerNew ==
    /\ lock = {}
    /\ threads = [x \in WorkerThreads |-> IF x = MainThread THEN "announce" ELSE "unstarted"]
    /\ sending = {}
    /\ frames = <<>>
    /\ sockets = [listener |-> "open", announced |-> 0, accepted |-> 0, open |-> {},
                  given |-> [t \in Tasks |-> 0]]

\* Command lists: each command is given by the status it exits with.
MaxCommands == 3
CommandLists == UNION {[1..n -> {0, 1}] : n \in 0..MaxCommands}
Line(text, k) == [text |-> text, command |-> k]
NoScript ==
    [state |-> "none", commands |-> <<>>, checks |-> FALSE, windows |-> FALSE,
     lines |-> <<>>, at |-> 0, status |-> 0, return_status |-> 0, ran |-> <<>>,
     exitcode |-> 0]

ScriptNew == script = NoScript

\* Launches in debug mode. The debug port a worker announces is numbered by
\* the launch that started it.
MaxDebugLaunches == 2
NotLaunching ==
    [launch |-> "idle", process |-> FALSE, pump |-> "none", read |-> <<>>,
     debugPort |-> 0, found |-> FALSE, launches |-> 0]

\* A manager in debug mode with two environments created and never launched:
\* process is None, debug_ports.json has no entry.
DebugNew ==
    /\ debugPorts = [e \in LoadNames |-> 0]
    /\ debugging = [e \in LoadNames |-> NotLaunching]

\* The state of what a specification does not exercise.
Elsewhere ==
    /\ ExecutorNew /\ PumpNew /\ StepsNew /\ PathsNew /\ OutputNew /\ RequirementNew
    /\ WorkerNew /\ ScriptNew /\ DebugNew

\* EnvironmentManager.__init__: an empty registry, nothing called yet.
ManagerNew ==
    /\ environments = [n \in Names |-> Absent]
    /\ instances = [i \in InstanceIds |-> Unconstructed]
    /\ call = NoCall

\* One ExternalEnvironment right after its construction by create().
EnvironmentNew ==
    /\ lockOwner = "none"
    /\ pc = [t \in Threads |-> "idle"]
    /\ op = [t \in Threads |-> "none"]
    /\ outcome = [t \in Threads |-> Pending]
    /\ process = NoProc
    /\ port = NoPort
    /\ connection = NoConnection
    /\ wire = EmptyWire
    /\ procs = [p \in Pids |-> "unspawned"]
    /\ portFound = FALSE
    /\ spawnCount = 0
    /\ existsOnDisk = TRUE
    /\ registry = "this"

Init ==
    /\ EnvironmentNew
    /\ ManagerNew
    /\ mainPath = FALSE
    /\ Elsewhere

\* Launches already called and not yet past their spawn.
LaunchesUnderWay == Cardinality({t \in Threads : op[t] = "launch" /\ pc[t] \in {"acquire", "launch_body"}})

\* A host thread calls a method of the environment.
Call(t, o) ==
    /\ pc[t] = "idle"
    /\ o = "launch" => spawnCount + LaunchesUnderWay < MaxProcs
    /\ pc' = [pc EXCEPT ![t] = "acquire"]
    /\ op' = [op EXCEPT ![t] = o]
    /\ UNCHANGED <<lockOwner, outcome, process, port, connection, wire, procs,
                   spawnCount, existsOnDisk, registry, portFound, others>>

\* First pc of each method's body.
BodyOf(o) ==
    CASE o \in {"execute", "runScript"} -> "send"
      [] o = "launch" -> "launch_body"
      [] o = "launched" -> "launched_body"
      [] o = "exit" -> "exit_body"
      [] o = "delete" -> "delete_body"
      [] o = "update" -> "update_body"

\* synchronized: enter `with self._lock`.
Acquire(t) ==
    /\ pc[t] = "acquire"
    /\ LockAvailable(t)
    /\ lockOwner' = t
    /\ pc' = [pc EXCEPT ![t] = BodyOf(op[t])]
    /\ UNCHANGED <<op, outcome, process, port, connection, wire, procs,
                   spawnCount, existsOnDisk, registry, portFound, others>>

\* synchronized: leave `with self._lock`, by return or by exception.  exit()
\* goes on to remove the environment from the registry.
Release(t) ==
    /\ pc[t] \in {"release", "launch_return"}
    /\ lockOwner' = IF lockOwner = t THEN "none" ELSE lockOwner
    /\ pc' = [pc EXCEPT ![t] = IF op[t] = "exit" THEN "exit_remove" ELSE "idle"]
    /\ op' = [op EXCEPT ![t] = IF op[t] = "exit" THEN "exit" ELSE "none"]
    /\ outcome' = [outcome EXCEPT ![t] = IF op[t] = "exit" THEN @ ELSE Pending]
    /\ UNCHANGED <<process, port, connection, wire, procs, spawnCount,
                   existsOnDisk, registry, portFound, others>>

\* ------------------------------------------------- execute / runScript
\* The request frame execute() or runScript() builds.
Payload(o) == IF o = "execute" THEN "execute" ELSE "run"

\* Variant: every OSError is swallowed, whatever its errno.
OnCommErrorSwallowAll(e) ==
    IF e.value = "EOFError"
    THEN Logged(Return("None"), "Connection closed gracefully by the peer.")
    ELSE IF e.value = "BrokenPipeError"
    THEN Logged(Return("None"), "Broken pipe. The peer process might have terminated.")
    ELSE Logged(Return("None"), "Connection closed abruptly by the peer.")

\* The except clauses of _sendAndWait, in their order: what the call does
\* with the exception e (a "raising" outcome) that send or recv raised.
OnCommError(e) ==
    IF e.value = "EOFError"
    THEN Logged(Return("None"), "Connection closed gracefully by the peer.")
    ELSE IF e.value = "BrokenPipeError"
    THEN Logged(Return("None"), "Broken pipe. The peer process might have terminated.")
    ELSE IF e.errno = EBADF
    THEN Logged(Return("None"), "Connection closed abruptly by the peer.")
    ELSE Logged([Raise("OSError", "") EXCEPT !.errno = e.errno], "Unexpected OSError")

\* Variant: a frame with an unexpected action ends the loop.
OnMessageStopAtUnexpected(m, o) ==
    IF ~Truthy(m) THEN Return("None")
    ELSE IF m.action = "execution finished"
    THEN Logged([Return(m.result) EXCEPT !.skipped = o.skipped], "finished")
    ELSE IF m.action = "error"
    THEN Logged([Raise("ExecutionException", m.exception) EXCEPT
                    !.traceback = m.traceback, !.skipped = o.skipped], "Traceback:")
    ELSE Logged(Return("None"), "Got an unexpected message")

\* Variant: an error frame is logged and the call returns None.
OnMessageErrorReturnsNone(m, o) ==
    IF ~Truthy(m) THEN Return("None")
    ELSE IF m.action = "execution finished"
    THEN Logged([Return(m.result) EXCEPT !.skipped = o.skipped], "finished")
    ELSE IF m.action = "error"
    THEN Logged([Return("None") EXCEPT !.skipped = o.skipped], "Traceback:")
    ELSE Logged([o EXCEPT !.skipped = @ + 1], "Got an unexpected message")

\* The body of the receive loop for the received message m, the call's
\* outcome being o so far: the outcome of the call, or a pending outcome when
\* the loop goes on.
OnMessage(m, o) ==
    IF ~Truthy(m) THEN Return("None")
    ELSE IF m.action = "execution finished"
    THEN Logged([Return(m.result) EXCEPT !.skipped = o.skipped], "finished")
    ELSE IF m.action = "error"
    THEN Logged([Raise("ExecutionException", m.exception) EXCEPT
                    !.traceback = m.traceback, !.skipped = o.skipped], "Traceback:")
    ELSE Logged([o EXCEPT !.skipped = @ + 1], "Got an unexpected message")

\* Variant: only a missing connection is refused.
ConnectionNotReadyOnlyNone == ~connection.exists

\* _sendAndWait refuses to send: no connection, or a closed one.
ConnectionNotReady == ~connection.exists \/ connection.closed

\* _sendAndWait up to connection.send(payload).
Send(t) ==
    /\ pc[t] = "send"
    /\ IF ConnectionNotReady
       THEN /\ outcome' = [outcome EXCEPT ![t] = Raise("ExecutionException", "Connection not ready.")]
            /\ pc' = [pc EXCEPT ![t] = "release"]
            /\ wire' = wire
       ELSE \/ /\ PeerAlive
               /\ wire' = [wire EXCEPT !.toWorker = Append(@, Payload(op[t]))]
               /\ pc' = [pc EXCEPT ![t] = "recv"]
               /\ outcome' = outcome
            \/ /\ ~PeerAlive
               /\ \/ /\ wire' = wire
                     /\ pc' = [pc EXCEPT ![t] = "recv"]
                     /\ outcome' = outcome
                  \/ \E e \in SendErrors :
                        /\ wire' = wire
                        /\ outcome' = [outcome EXCEPT ![t] = Raising(e)]
                        /\ pc' = [pc EXCEPT ![t] = "except"]
    /\ UNCHANGED <<lockOwner, op, process, port, connection, procs, spawnCount,
                   existsOnDisk, registry, portFound, others>>

\* One connection.recv() of the loop of _sendAndWait, and what follows it.
Recv(t) ==
    /\ pc[t] = "recv"
    /\ \/ /\ wire.toHost # <<>>
          /\ LET m == Head(wire.toHost)
                 res == OnMessage(m, outcome[t])
             IN  /\ wire' = [wire EXCEPT !.toHost = Tail(@)]
                 /\ outcome' = [outcome EXCEPT ![t] = res]
                 /\ pc' = [pc EXCEPT ![t] = IF res.kind = "pending" THEN "recv" ELSE "release"]
       \/ /\ wire.toHost = <<>>
          /\ ~PeerAlive
          /\ \E e \in RecvErrors :
                /\ outcome' = [outcome EXCEPT ![t] = Raising(e)]
                /\ pc' = [pc EXCEPT ![t] = "except"]
                /\ wire' = wire
    /\ UNCHANGED <<lockOwner, op, process, port, connection, procs, spawnCount,
                   existsOnDisk, registry, portFound, others>>

\* The except clauses of _sendAndWait run on the exception send or recv raised.
Except(t) ==
    /\ pc[t] = "except"
    /\ outcome' = [outcome EXCEPT ![t] = OnCommError(outcome[t])]
    /\ pc' = [pc EXCEPT ![t] = "release"]
    /\ UNCHANGED <<lockOwner, op, process, port, connection, wire, procs,
                   spawnCount, existsOnDisk, registry, portFound, others>>

\* ---------------------------------------------------------------- launched
LaunchedCall(t) ==
    /\ pc[t] = "launched_body"
    /\ outcome' = [outcome EXCEPT ![t] = Return(IF Launched THEN "True" ELSE "False")]
    /\ pc' = [pc EXCEPT ![t] = "release"]
    /\ UNCHANGED <<lockOwner, op, process, port, connection, wire, procs,
                   spawnCount, existsOnDisk, registry, portFound, others>>

\* ------------------------------------------------------------------ launch
\* Variant: launch() does not look at launched().
LaunchSkipsNever == FALSE

\* `if self.launched(): return` at the head of launch().
LaunchSkips == Launched

\* launch() up to executeCommands: return at once when launched, else spawn
\* the worker.
LaunchBody(t) ==
    /\ pc[t] = "launch_body"
    /\ IF LaunchSkips
       THEN /\ outcome' = [outcome EXCEPT ![t] = Return("None")]
            /\ pc' = [pc EXCEPT ![t] = "launch_return"]
            /\ UNCHANGED <<process, procs, spawnCount, portFound>>
       ELSE /\ spawnCount < MaxProcs
            /\ spawnCount' = spawnCount + 1
            /\ process' = spawnCount + 1
            /\ procs' = [procs EXCEPT ![spawnCount + 1] = "starting"]
            /\ pc' = [pc EXCEPT ![t] = "launch_wait"]
            /\ portFound' = FALSE
            /\ outcome' = outcome
    /\ UNCHANGED <<lockOwner, op, port, connection, wire, existsOnDisk, registry, others>>

\* port_found_event.wait(timeout=30): the event of this launch is set, or the
\* wait times out.
LaunchWait(t) ==
    /\ pc[t] = "launch_wait"
    /\ IF portFound
       THEN /\ pc' = [pc EXCEPT ![t] = "launch_connect"]
            /\ outcome' = outcome
       ELSE /\ outcome' = [outcome EXCEPT ![t] = Raise("Exception", "Timeout waiting for server port.")]
            /\ pc' = [pc EXCEPT ![t] = "release"]
    /\ portFound' = FALSE
    /\ UNCHANGED <<lockOwner, op, process, port, connection, wire, procs,
                   spawnCount, existsOnDisk, registry, others>>

\* The processes listening on a port.
Listening(n) == {p \in Pids : procs[p] = "listening" /\ PortOf(p) = n}

\* launch() after the wait: poll the process, check the port, connect.
LaunchConnect(t) ==
    /\ pc[t] = "launch_connect"
    /\ IF Poll(process) # "None"
       THEN /\ outcome' = [outcome EXCEPT ![t] = Raise("Exception", "Process exited with return code.")]
            /\ UNCHANGED <<connection, wire>>
       ELSE IF port = NoPort
       THEN /\ outcome' = [outcome EXCEPT ![t] = Raise("Exception", "Could not find the server port.")]
            /\ UNCHANGED <<connection, wire>>
       ELSE IF Listening(port) = {}
       THEN /\ outcome' = [outcome EXCEPT ![t] = Raise("ConnectionRefusedError", "")]
            /\ UNCHANGED <<connection, wire>>
       ELSE /\ \E p \in Listening(port) : connection' = Client(p)
            /\ wire' = EmptyWire
            /\ outcome' = [outcome EXCEPT ![t] = Return("None")]
    /\ pc' = [pc EXCEPT ![t] = "release"]
    /\ UNCHANGED <<lockOwner, op, process, port, procs, spawnCount, existsOnDisk,
                   registry, portFound, others>>

\* -------------------------------------------------------------------- exit
\* The wire after _exit's connection.send(dict(action="exit")): the frame
\* reaches a live peer; a failure to send is swallowed.
ExitWire ==
    IF connection.exists /\ ~connection.closed /\ PeerAlive
    THEN [wire EXCEPT !.toWorker = Append(@, "exit")]
    ELSE wire

\* ExternalEnvironment._exit under the lock.
ExitBody(t) ==
    /\ pc[t] = "exit_body"
    /\ wire' = Hangup(ExitWire, ExitEffect[1], ExitEffect[2])
    /\ connection' = ExitEffect[1]
    /\ procs' = ExitEffect[2]
    /\ outcome' = [outcome EXCEPT ![t] = Return("None")]
    /\ pc' = [pc EXCEPT ![t] = "release"]
    /\ UNCHANGED <<lockOwner, op, process, port, spawnCount, existsOnDisk, registry, portFound, others>>

\* EnvironmentManager._removeEnvironment: the name is dropped from the registry.
RemoveEnvironment(reg) == IF reg # "none" THEN "none" ELSE reg

\* Environment.exit after _exit returned: remove the environment.
ExitRemove(t) ==
    /\ pc[t] = "exit_remove"
    /\ registry' = RemoveEnvironment(registry)
    /\ pc' = [pc EXCEPT ![t] = "idle"]
    /\ op' = [op EXCEPT ![t] = "none"]
    /\ outcome' = [outcome EXCEPT ![t] = Pending]
    /\ UNCHANGED <<lockOwner, process, port, connection, wire, procs, spawnCount,
                   existsOnDisk, portFound, others>>

\* ------------------------------------------------------------------ delete
\* ExternalEnvironment.delete under the lock (self.path is set).
DeleteBody(t) ==
    /\ pc[t] = "delete_body"
    /\ IF ~existsOnDisk
       THEN /\ outcome' = [outcome EXCEPT ![t] = Raise("Exception", "The environment does not exist.")]
            /\ UNCHANGED <<connection, wire, procs, existsOnDisk, registry>>
       ELSE /\ IF Launched
               THEN /\ wire' = Hangup(ExitWire, ExitEffect[1], ExitEffect[2])
                    /\ connection' = ExitEffect[1]
                    /\ procs' = ExitEffect[2]
               ELSE UNCHANGED <<connection, wire, procs>>
            /\ existsOnDisk' = FALSE
            /\ registry' = RemoveEnvironment(registry)
            /\ outcome' = [outcome EXCEPT ![t] = Return("None")]
    /\ pc' = [pc EXCEPT ![t] = "release"]
    /\ UNCHANGED <<lockOwner, op, process, port, spawnCount, portFound, others>>

\* ------------------------------------------------------------------ update
\* How EnvironmentManager.create(name, deps) ends when name is not registered.
CreateKinds == {"refused", "main", "failed", "created"}

\* Variant: update() without its delete(): what create() does not replace
\* is left as it was.
CreateEffectWithoutDelete(k, disk) ==
    CASE k = "refused" -> <<registry, existsOnDisk>>
      [] k = "main" -> <<registry, existsOnDisk>>
      [] k = "failed" -> <<"other", existsOnDisk>>
      [] k = "created" -> <<"other", TRUE>>

\* The registry and the directory after create(name, deps) on a registry
\* without name: <<registry, existsOnDisk>>.
CreateEffect(k, disk) ==
    CASE k = "refused" -> <<"none", disk>>
      [] k = "main" -> <<"none", disk>>
      [] k = "failed" -> <<"other", disk>>
      [] k = "created" -> <<"other", TRUE>>

CreateOutcome(k) ==
    CASE k = "refused" -> Raise("Exception", "Python version must be greater than 3.8")
      [] k = "main" -> Return("mainEnvironment")
      [] k = "failed" -> Raise("Exception", "The execution of the commands failed.")
      [] k = "created" -> Return("ExternalEnvironment")

\* ExternalEnvironment.update under the lock: delete(), then create().
UpdateBody(t) ==
    /\ pc[t] = "update_body"
    /\ IF ~existsOnDisk
       THEN /\ outcome' = [outcome EXCEPT ![t] = Raise("Exception", "The environment does not exist.")]
            /\ UNCHANGED <<connection, wire, procs, existsOnDisk, registry>>
       ELSE /\ IF Launched
               THEN /\ wire' = Hangup(ExitWire, ExitEffect[1], ExitEffect[2])
                    /\ connection' = ExitEffect[1]
                    /\ procs' = ExitEffect[2]
               ELSE UNCHANGED <<connection, wire, procs>>
            /\ \E k \in CreateKinds :
                  /\ registry' = CreateEffect(k, FALSE)[1]
                  /\ existsOnDisk' = CreateEffect(k, FALSE)[2]
                  /\ outcome' = [outcome EXCEPT ![t] = CreateOutcome(k)]
    /\ pc' = [pc EXCEPT ![t] = "release"]
    /\ UNCHANGED <<lockOwner, op, process, port, spawnCount, portFound, others>>

\* ---------------------------------------------- worker processes, log pump
\* The line a worker prints once its listener is bound.
PortLine(p) == [prefix |-> "Listening port ", rest |-> PortOf(p)]

\* launch_callback: int(line.replace("Listening port ", "")) for a port line.
ParsePort(line, old) == IF line.prefix = "Listening port " THEN line.rest ELSE old

\* The launch whose launch_callback the pump of process p calls is still
\* waiting for its event.
LaunchWaitsFor(p) == p = process /\ \E t \in Threads : pc[t] = "launch_wait"

\* The pump of process p hands its port line to the launch_callback of the
\* launch that spawned p: self.port is set, the event of that launch is set.
AnnouncePort(p) ==
    /\ procs[p] = "starting"
    /\ port' = ParsePort(PortLine(p), port)
    /\ procs' = [procs EXCEPT ![p] = "listening"]
    /\ portFound' = IF LaunchWaitsFor(p) THEN TRUE ELSE portFound
    /\ UNCHANGED <<lockOwner, pc, op, outcome, process, connection, wire,
                   spawnCount, existsOnDisk, registry, others>>

\* A line of a worker's output that is not its port line (its logger, its
\* subprocesses).
UnrelatedLines == {[prefix |-> "INFO:", rest |-> 0], [prefix |-> "Executed", rest |-> BasePort]}

\* The pump of process p hands an unrelated line to launch_callback.
OutputLine(p) ==
    /\ p \in Alive(procs)
    /\ \E line \in UnrelatedLines : port' = ParsePort(line, port)
    /\ UNCHANGED <<lockOwner, pc, op, outcome, process, connection, wire, procs,
                   spawnCount, existsOnDisk, registry, portFound, others>>

\* A worker process ends by itself (crash, kill from outside, script error).
ProcDie(p) ==
    /\ p \in Alive(procs)
    /\ procs' = [procs EXCEPT ![p] = "dead"]
    /\ wire' = Hangup(wire, connection, procs')
    /\ UNCHANGED <<lockOwner, pc, op, outcome, process, port, connection,
                   spawnCount, existsOnDisk, registry, portFound, others>>

WorkerCanSend ==
    /\ connection.exists
    /\ ~connection.closed
    /\ PeerAlive
    /\ wire.toWorker # <<>>
    /\ Head(wire.toWorker) \in {"execute", "run"}
    /\ Len(wire.toHost) < MaxQueue

\* Frames of the current request that are not terminal: skipped already, or
\* queued towards the host.
NonTerminalSoFar ==
    Len(SelectSeq(wire.toHost, LAMBDA f : f \notin TerminalFrames))
    + (IF \E t \in Threads : pc[t] = "recv"
       THEN outcome[CHOOSE t \in Threads : pc[t] = "recv"].skipped ELSE 0)

\* The worker answers the request at the head of its queue with a terminal frame.
WorkerReply(f) ==
    /\ WorkerCanSend
    /\ wire' = [toWorker |-> Tail(wire.toWorker), toHost |-> Append(wire.toHost, f)]
    /\ UNCHANGED <<lockOwner, pc, op, outcome, process, port, connection, procs,
                   spawnCount, existsOnDisk, registry, portFound, others>>

\* The worker sends a frame that is not terminal while a request is pending.
WorkerOther(f) ==
    /\ WorkerCanSend
    /\ NonTerminalSoFar < MaxSkipped
    /\ wire' = [wire EXCEPT !.toHost = Append(@, f)]
    /\ UNCHANGED <<lockOwner, pc, op, outcome, process, port, connection, procs,
                   spawnCount, existsOnDisk, registry, portFound, others>>

\* The worker receives the exit frame and terminates.
WorkerExit ==
    /\ connection.exists
    /\ PeerAlive
    /\ wire.toWorker # <<>>
    /\ Head(wire.toWorker) = "exit"
    /\ procs' = [procs EXCEPT ![connection.peer] = "dead"]
    /\ wire' = Hangup(wire, connection, procs')
    /\ UNCHANGED <<lockOwner, pc, op, outcome, process, port, connection,
                   spawnCount, existsOnDisk, registry, portFound, others>>

\* ----------------------------------------------------------- specification
Next ==
    \/ \E t \in Threads : \E o \in Ops : Call(t, o)
    \/ \E t \in Threads : Acquire(t)
    \/ \E t \in Threads : Release(t)
    \/ \E t \in Threads : Send(t)
    \/ \E t \in Threads : Recv(t)
    \/ \E t \in Threads : Except(t)
    \/ \E t \in Threads : LaunchedCall(t)
    \/ \E t \in Threads : LaunchBody(t)
    \/ \E t \in Threads : LaunchWait(t)
    \/ \E t \in Threads : LaunchConnect(t)
    \/ \E t \in Threads : ExitBody(t)
    \/ \E t \in Threads : ExitRemove(t)
    \/ \E t \in Threads : DeleteBody(t)
    \/ \E t \in Threads : UpdateBody(t)
    \/ \E p \in Pids : AnnouncePort(p)
    \/ \E p \in Pids : OutputLine(p)
    \/ \E p \in Pids : ProcDie(p)
    \/ \E f \in TerminalFrames : WorkerReply(f)
    \/ \E f \in OtherFrames : WorkerOther(f)
    \/ WorkerExit

Spec == Init /\ [][Next]_vars


\* ------------------------------------------ EnvironmentManager.create: parts
Digits == <<"0", "1", "2", "3", "4", "5", "6", "7", "8", "9">>
IsDigit(c) == \E n \in 1..10 : Digits[n] = c
DigitValue(c) == (CHOOSE n \in 1..10 : Digits[n] = c) - 1

\* int(text) of a run of digits.
RECURSIVE ToInt(_)
ToInt(text) ==
    IF text = <<>> THEN 0
    ELSE 10 * ToInt(SubSeq(text, 1, Len(text) - 1)) + DigitValue(text[Len(text)])

\* text.replace("=", "")
RemoveEquals(text) == SelectSeq(text, LAMBDA c : c # "=")

\* text.startswith(prefix)
StartsWith(text, prefix) ==
    Len(prefix) <= Len(text) /\ SubSeq(text, 1, Len(prefix)) = prefix

\* The end of the run of digits that starts at position i of text.
RunEnd(text, i) ==
    CHOOSE j \in i..Len(text) :
        /\ \A k \in i..j : IsDigit(text[k])
        /\ j = Len(text) \/ ~IsDigit(text[j + 1])

\* The positions where (\d+)\.(\d+) matches.
MatchStarts(text) ==
    {i \in 1..Len(text) :
        /\ IsDigit(text[i])
        /\ RunEnd(text, i) + 2 <= Len(text)
        /\ text[RunEnd(text, i) + 1] = "."
        /\ IsDigit(text[RunEnd(text, i) + 2])}

\* re.search(r"(\d+)\.(\d+)", text): the leftmost match and its two groups.
SearchVersion(text) ==
    IF MatchStarts(text) = {}
    THEN [matched |-> FALSE, major |-> 0, minor |-> 0]
    ELSE LET i == CHOOSE a \in MatchStarts(text) : \A b \in MatchStarts(text) : a <= b
             j == RunEnd(text, i)
         IN  [matched |-> TRUE,
              major |-> ToInt(SubSeq(text, i, j)),
              minor |-> ToInt(SubSeq(text, j + 2, RunEnd(text, j + 2)))]

\* create(): `match and (int(match.group(1)) < 3 or int(match.group(2)) < 9)`.
PythonRefused(python) ==
    LET m == SearchVersion(RemoveEquals(python))
    IN  m.matched /\ (m.major < 3 \/ m.minor < 9)

\* sys.version of the host running the manager.
HostPython == <<"3", ".", "1", "2", ".", "1">>

\* DependencyManager._platformCondaFormat() on the host.
CurrentPlatform == "linux-64"

\* A dependency given as a plain string.
Plain(n) == [structured |-> FALSE, name |-> n, all |-> FALSE, platforms |-> <<>>,
             optional |-> FALSE, dependencies |-> TRUE]
\* A structured dependency; `all` stands for platforms == "all".
Structured(n, a, ps, o, d) ==
    [structured |-> TRUE, name |-> n, all |-> a, platforms |-> ps,
     optional |-> o, dependencies |-> d]

InList(x, list) == \E k \in 1..Len(list) : list[k] = x

\* f'"{d}"'
Quote(d) == <<"\"", d, "\"">>

NothingFormatted == [raised |-> FALSE, withDeps |-> <<>>, noDeps |-> <<>>]

\* The loop of DependencyManager.formatDependencies over the entries.
RECURSIVE FormatEntries(_, _, _)
FormatEntries(list, raiseIncompatibilityError, acc) ==
    IF list = <<>> THEN acc
    ELSE LET d == Head(list) IN
         IF ~d.structured
         THEN FormatEntries(Tail(list), raiseIncompatibilityError,
                            [acc EXCEPT !.withDeps = Append(@, Quote(d.name))])
         ELSE IF \/ InList(CurrentPlatform, d.platforms)
                 \/ d.all
                 \/ Len(d.platforms) = 0
                 \/ ~raiseIncompatibilityError
         THEN IF d.dependencies
              THEN FormatEntries(Tail(list), raiseIncompatibilityError,
                                 [acc EXCEPT !.withDeps = Append(@, Quote(d.name))])
              ELSE FormatEntries(Tail(list), raiseIncompatibilityError,
                                 [acc EXCEPT !.noDeps = Append(@, Quote(d.name))])
         ELSE IF ~d.optional
         THEN [acc EXCEPT !.raised = TRUE]
         ELSE FormatEntries(Tail(list), raiseIncompatibilityError, acc)

\* Variant: an entry for another platform is an error even when optional.
FormatDependenciesOptionalRaises(packageManager, dependencies, raiseIncompatibilityError) ==
    LET list == IF packageManager = "conda" THEN dependencies.conda ELSE dependencies.pip
        f == FormatEntries(list, raiseIncompatibilityError, NothingFormatted)
        foreign == \E k \in 1..Len(list) :
                      /\ list[k].structured /\ ~list[k].all /\ Len(list[k].platforms) > 0
                      /\ ~InList(CurrentPlatform, list[k].platforms)
    IN  [raised |-> f.raised \/ (raiseIncompatibilityError /\ foreign),
         withDeps |-> f.withDeps, noDeps |-> f.noDeps,
         has |-> Len(f.withDeps) + Len(f.noDeps) > 0]

\* DependencyManager.formatDependencies(package_manager, dependencies, raise).
FormatDependencies(packageManager, dependencies, raiseIncompatibilityError) ==
    LET list == IF packageManager = "conda" THEN dependencies.conda ELSE dependencies.pip
        f == FormatEntries(list, raiseIncompatibilityError, NothingFormatted)
    IN  [raised |-> f.raised, withDeps |-> f.withDeps, noDeps |-> f.noDeps,
         has |-> Len(f.withDeps) + Len(f.noDeps) > 0]

\* The commands the manager hands to its CommandExecutor, by what they do.
Command(c, ps) == [cmd |-> c, packages |-> ps]

\* Variant: the packages of a main environment that has a path are listed
\* before anything is looked at.
DependenciesAreInstalledListingFirst(dependencies, installed) ==
    LET c == FormatDependencies("conda", dependencies, FALSE)
        p == FormatDependencies("pip", dependencies, FALSE)
        listing == IF mainPath THEN <<Command("list", <<>>)>> ELSE <<>>
    IN  IF ~StartsWith(HostPython, RemoveEquals(dependencies.python))
        THEN [value |-> FALSE, commands |-> listing]
        ELSE IF ~p.has /\ ~c.has
        THEN [value |-> TRUE, commands |-> listing]
        ELSE IF c.has /\ ~mainPath
        THEN [value |-> FALSE, commands |-> <<>>]
        ELSE [value |-> installed, commands |-> listing]

\* EnvironmentManager._dependenciesAreInstalled(dependencies): its value and
\* the commands it ran. `installed` is what comparing the requirements with
\* the packages found gives.
DependenciesAreInstalled(dependencies, installed) ==
    LET c == FormatDependencies("conda", dependencies, FALSE)
        p == FormatDependencies("pip", dependencies, FALSE)
    IN  IF ~StartsWith(HostPython, RemoveEquals(dependencies.python))
        THEN [value |-> FALSE, commands |-> <<>>]
        ELSE IF ~p.has /\ ~c.has
        THEN [value |-> TRUE, commands |-> <<>>]
        ELSE IF c.has /\ ~mainPath
        THEN [value |-> FALSE, commands |-> <<>>]
        ELSE IF mainPath
        THEN [value |-> installed, commands |-> <<Command("list", <<>>)>>]
        ELSE [value |-> installed, commands |-> <<>>]

\* DependencyManager.getInstallDependenciesCommands(environment, dependencies).
InstallDependenciesCommands(dependencies) ==
    LET c == FormatDependencies("conda", dependencies, TRUE)
        p == FormatDependencies("pip", dependencies, TRUE)
    IN  IF c.raised \/ p.raised
        THEN [raised |-> TRUE, commands |-> <<>>]
        ELSE [raised |-> FALSE,
              commands |->
                  (IF c.has \/ p.has THEN <<Command("activate", <<>>)>> ELSE <<>>)
                  \o (IF Len(c.withDeps) > 0
                      THEN <<Command("conda install", c.withDeps)>> ELSE <<>>)
                  \o (IF Len(c.noDeps) > 0
                      THEN <<Command("conda install --no-deps", c.noDeps)>> ELSE <<>>)
                  \o (IF Len(p.withDeps) > 0
                      THEN <<Command("pip install", p.withDeps)>> ELSE <<>>)
                  \o (IF Len(p.noDeps) > 0
                      THEN <<Command("pip install --no-dependencies", p.noDeps)>> ELSE <<>>)]

\* The ExternalEnvironment objects constructed so far.
Constructed == {i \in InstanceIds : instances[i].name # ""}

\* ------------------------------------------------- the manager's operations
PythonTexts ==
    {NoPython, <<"2">>, <<"=", "3", ".", "8">>, <<"3", ".", "8", ".", "0">>,
     <<"3", ".", "9">>, <<"3", ".", "1", "0">>, <<"3", ".", "1">>,
     <<"3", ".", "1", "2">>, <<"4", ".", "0">>}

EntryLists ==
    {<<>>,
     <<Plain("numpy")>>,
     <<Plain("numpy"), Structured("tensorflow", FALSE, <<"osx-64">>, FALSE, TRUE)>>,
     <<Structured("pandas", FALSE, <<"win-64", "osx-64">>, TRUE, TRUE), Plain("numpy")>>,
     <<Structured("torch", FALSE, <<"linux-64">>, FALSE, FALSE)>>,
     <<Structured("scipy", TRUE, <<>>, FALSE, TRUE)>>}

DependencySets ==
    {[python |-> v, conda |-> <<>>, pip |-> <<>>] : v \in PythonTexts}
    \cup {[python |-> NoPython, conda |-> l, pip |-> <<>>] : l \in EntryLists}
    \cup {[python |-> NoPython, conda |-> <<>>, pip |-> l] : l \in EntryLists}
    \cup {[python |-> <<"3", ".", "8">>, conda |-> l, pip |-> <<>>] : l \in EntryLists}
    \cup {[python |-> <<"3", ".", "1">>, conda |-> <<>>, pip |-> <<Plain("numpy")>>]}

\* The dependency sets of the calls that exercise the registry.
RegistryDependencySets ==
    {NoDependencies,
     [python |-> NoPython, conda |-> <<>>, pip |-> <<Plain("numpy")>>]}

\* Variant: the host's packages are used even with forceExternal.
UsesMainEnvironmentIgnoringForce(forceExternal, met) == met

\* create(): `if not forceExternal and self._dependenciesAreInstalled(dependencies)`.
UsesMainEnvironment(forceExternal, met) == ~forceExternal /\ met

CreateCall(name, dependencies, forceExternal) ==
    [NoCall EXCEPT !.op = "create", !.name = name, !.dependencies = dependencies,
                   !.forceExternal = forceExternal]

\* Variant: create() constructs a new environment without looking the name up.
RegisteredNever(name) == Absent

\* create(): `if name in self.environments: return self.environments[name]`.
Registered(name) == environments[name]

\* EnvironmentManager.create(name, dependencies, forceExternal=forceExternal).
\* `installed` is the reconciler's comparison and `fails` says that the
\* creation commands end with an error; each is FALSE in a call that never
\* gets that far.
Create(name, dependencies, forceExternal, installed, fails) ==
    LET check == DependenciesAreInstalled(dependencies, installed)
        asked == [CreateCall(name, dependencies, forceExternal) EXCEPT
                     !.reconciler = IF forceExternal THEN "not asked"
                                    ELSE IF check.value THEN "met" ELSE "unmet",
                     !.commands = IF forceExternal THEN <<>> ELSE check.commands]
        id == Cardinality(Constructed) + 1
        install == InstallDependenciesCommands(dependencies)
        compares == /\ Registered(name) = Absent
                    /\ ~forceExternal
                    /\ DependenciesAreInstalled(dependencies, TRUE).value
        runs == /\ Registered(name) = Absent
                /\ forceExternal \/ ~check.value
                /\ ~PythonRefused(dependencies.python)
                /\ ~install.raised
    IN
    /\ installed => compares
    /\ fails => runs
    /\ IF Registered(name) # Absent
       THEN /\ call' = [CreateCall(name, dependencies, forceExternal) EXCEPT
                           !.result = Registered(name)]
            /\ UNCHANGED <<environments, instances>>
       ELSE IF UsesMainEnvironment(forceExternal, check.value)
       THEN /\ call' = [asked EXCEPT !.result = Main]
            /\ UNCHANGED <<environments, instances>>
       ELSE IF PythonRefused(dependencies.python)
       THEN /\ call' = [asked EXCEPT !.raised = "Python version must be greater than 3.8"]
            /\ UNCHANGED <<environments, instances>>
       ELSE /\ id <= MaxInstances
            /\ instances' = [instances EXCEPT ![id] = NewExternalEnvironment(name)]
            /\ environments' = [environments EXCEPT ![name] = External(id)]
            /\ IF install.raised
               THEN call' = [asked EXCEPT !.raised = "IncompatibilityException"]
               ELSE IF fails
               THEN call' = [asked EXCEPT
                                !.raised = "The execution of the commands failed.",
                                !.commands = @ \o <<Command("create", <<>>)>> \o install.commands]
               ELSE call' = [asked EXCEPT
                                !.result = External(id),
                                !.commands = @ \o <<Command("create", <<>>)>> \o install.commands]
    /\ UNCHANGED <<lockOwner, pc, op, outcome, process, port, connection, wire, procs,
                   portFound, spawnCount, existsOnDisk, registry, mainPath, beyond>>

\* launched() of the constructed environment i.
InstanceLaunched(i) ==
    /\ instances[i].process # NoProc
    /\ instances[i].process \in Alive(procs)
    /\ instances[i].connection = "open"

EnvironmentCall(o, i) ==
    [NoCall EXCEPT !.op = o, !.self = External(i), !.name = instances[i].name]

\* How a launch that spawns a worker ends: connected, no port line within the
\* timeout, or the worker gone before the connection.
LaunchEndings == {"connected", "timeout", "exited"}

\* launch() of the constructed environment i, from call to return.
EnvironmentLaunch(i, ending) ==
    /\ i \in Constructed
    /\ IF InstanceLaunched(i)
       THEN /\ call' = EnvironmentCall("launch", i)
            /\ UNCHANGED <<instances, procs, spawnCount>>
       ELSE /\ spawnCount < MaxProcs
            /\ spawnCount' = spawnCount + 1
            /\ procs' = [procs EXCEPT ![spawnCount + 1] =
                            CASE ending = "connected" -> "listening"
                              [] ending = "timeout" -> "starting"
                              [] ending = "exited" -> "dead"]
            /\ instances' = [instances EXCEPT
                                ![i].process = spawnCount + 1,
                                ![i].connection = IF ending = "connected" THEN "open" ELSE @]
            /\ call' = [EnvironmentCall("launch", i) EXCEPT
                           !.raised = CASE ending = "connected" -> ""
                                        [] ending = "timeout" -> "Timeout waiting for server port."
                                        [] ending = "exited" -> "Process exited with return code."]
    /\ UNCHANGED <<lockOwner, pc, op, outcome, process, port, connection, wire,
                   portFound, existsOnDisk, registry, environments, mainPath, beyond>>

\* Variant: exit leaves the environment in the registry.
RemoveByNameKeeps(envs, name) == envs

\* EnvironmentManager._removeEnvironment(environment): the name is dropped.
RemoveByName(envs, name) == [envs EXCEPT ![name] = Absent]

\* exit() of the constructed environment i: _exit(), then the removal from
\* the registry.
EnvironmentExit(i) ==
    /\ i \in Constructed
    /\ instances' = [instances EXCEPT
                        ![i].connection = IF @ = "none" THEN "none" ELSE "closed"]
    /\ procs' = KillProcess(procs, instances[i].process)
    /\ environments' = RemoveByName(environments, instances[i].name)
    /\ call' = EnvironmentCall("exit", i)
    /\ UNCHANGED <<lockOwner, pc, op, outcome, process, port, connection, wire,
                   portFound, spawnCount, existsOnDisk, registry, mainPath, beyond>>

\* A worker of one of the manager's environments ends by itself.
WorkerDies(p) ==
    /\ p \in Alive(procs)
    /\ procs' = [procs EXCEPT ![p] = "dead"]
    /\ UNCHANGED <<lockOwner, pc, op, outcome, process, port, connection, wire,
                   portFound, spawnCount, existsOnDisk, registry, others>>

NextManager ==
    \/ \E n \in Names : \E d \in RegistryDependencySets : \E f, i, x \in BOOLEAN :
          Create(n, d, f, i, x)
    \/ \E i \in InstanceIds : \E e \in LaunchEndings : EnvironmentLaunch(i, e)
    \/ \E i \in InstanceIds : EnvironmentExit(i)
    \/ \E p \in Pids : WorkerDies(p)

SpecManager == Init /\ [][NextManager]_vars

\* create() alone, over every dependency set.
NextCreate ==
    \E n \in Names : \E d \in DependencySets : \E f, i, x \in BOOLEAN : Create(n, d, f, i, x)

\* A manager constructed with or without mainCondaEnvironmentPath.
InitCreate ==
    /\ EnvironmentNew
    /\ ManagerNew
    /\ mainPath \in BOOLEAN
    /\ Elsewhere

SpecCreate == InitCreate /\ [][NextCreate]_vars

\* ----------------------------------------- execute() and the module executor
\* The caller may execute request r: the requests before it were answered.
MayExecute(r) ==
    /\ message[r] = NoMessage
    /\ \A q \in Requests : q < r => answer[q].state \in {"returned", "raised"}

\* InternalEnvironment.execute(modulePath, function, args, kwargs): import
\* the module, raise when it has no such function, else return
\* getattr(module, function)(*args).
InternalExecute(r, c) ==
    /\ MayExecute(r)
    /\ c.environment = "internal"
    /\ message' = [message EXCEPT ![r] = c]
    /\ called' = [called EXCEPT ![r] = c.module.imports /\ c.module.defines]
    /\ answer' = [answer EXCEPT ![r] =
          IF ~c.module.imports THEN Raised(ImportFailed)
          ELSE IF ~c.module.defines THEN Raised(HasNoFunction)
          ELSE IF c.module.body = "returns" THEN Returned(Prod(c.args, DefaultY))
          ELSE IF c.module.body = "raises" THEN Raised(FunctionRaised)
          ELSE Raised("SystemExit")]
    /\ UNCHANGED <<thread, sent, besidesExecutor>>

\* ExternalEnvironment.execute: send the execute payload (with args and
\* kwargs) and wait for the answer.
ExternalExecute(r, c) ==
    /\ MayExecute(r)
    /\ c.environment = "external"
    /\ message' = [message EXCEPT ![r] = c]
    /\ answer' = [answer EXCEPT ![r] = Waiting]
    /\ UNCHANGED <<thread, sent, called, besidesExecutor>>

\* launchListener: an execute message starts a functionExecutor thread.
StartExecutor(r) ==
    /\ message[r].environment = "external"
    /\ thread[r] = NoThread
    /\ thread' = [thread EXCEPT ![r] = ThreadAt("import", 0, "")]
    /\ UNCHANGED <<message, sent, answer, called, besidesExecutor>>

\* functionExecutor: import_module(modulePath.stem).
ImportModule(r) ==
    /\ thread[r].at = "import"
    /\ thread' = [thread EXCEPT ![r] =
          IF message[r].module.imports THEN ThreadAt("lookup", 0, "")
          ELSE ThreadAt("except", 0, ImportFailed)]
    /\ UNCHANGED <<message, sent, answer, called, besidesExecutor>>

\* The module has no such function: the lookup raises.
LookupRaisesNever(m) == FALSE
\* functionExecutor: not hasattr(module, message["function"]).
LookupRaises(m) == ~m.module.defines

\* functionExecutor: raise when the module has no such function.
LookupFunction(r) ==
    /\ thread[r].at = "lookup"
    /\ thread' = [thread EXCEPT ![r] =
          IF LookupRaises(message[r]) THEN ThreadAt("except", 0, HasNoFunction)
          ELSE ThreadAt("call", 0, "")]
    /\ UNCHANGED <<message, sent, answer, called, besidesExecutor>>

\* functionExecutor: result = getattr(module, function)(*message["args"]).
\* An Exception goes to the except clause; sys.exit() raises SystemExit,
\* which is not an Exception and ends the thread.
CallFunction(r) ==
    /\ thread[r].at = "call"
    /\ called' = [called EXCEPT ![r] = TRUE]
    /\ thread' = [thread EXCEPT ![r] =
          IF message[r].module.body = "returns"
          THEN ThreadAt("send", Prod(message[r].args, DefaultY), "")
          ELSE IF message[r].module.body = "raises"
          THEN ThreadAt("except", 0, FunctionRaised)
          ELSE ThreadAt("ended", 0, "SystemExit")]
    /\ UNCHANGED <<message, sent, answer, besidesExecutor>>

\* functionExecutor: connection.send(dict(action="execution finished", ...));
\* a result that cannot be pickled raises before anything is written.
SendResult(r) ==
    /\ thread[r].at = "send"
    /\ IF message[r].module.picklable
       THEN /\ sent' = Append(sent, FinishedFrame(r, thread[r].result))
            /\ thread' = [thread EXCEPT ![r].at = "ended"]
       ELSE /\ thread' = [thread EXCEPT ![r] = ThreadAt("except", 0, CannotPickle)]
            /\ UNCHANGED sent
    /\ UNCHANGED <<message, answer, called, besidesExecutor>>

\* functionExecutor, except Exception: connection.send(dict(action="error", ...)).
SendError(r) ==
    /\ thread[r].at = "except"
    /\ sent' = Append(sent, ErrorFrame(r, thread[r].exception))
    /\ thread' = [thread EXCEPT ![r].at = "ended"]
    /\ UNCHANGED <<message, answer, called, besidesExecutor>>

\* The frames the callers of the requests before r have read.
ReadBefore(r) ==
    Cardinality({q \in Requests : /\ q < r
                                  /\ message[q].environment = "external"
                                  /\ answer[q].state \in {"returned", "raised"}})

\* ExternalEnvironment._sendAndWait: the next frame is 'execution finished'
\* (return its result) or 'error' (raise ExecutionException(message)).
ReceiveAnswer(r) ==
    /\ answer[r] = Waiting
    /\ Len(sent) > ReadBefore(r)
    /\ LET f == sent[ReadBefore(r) + 1] IN
       answer' = [answer EXCEPT ![r] =
          IF f.action = "execution finished" THEN Returned(f.result)
          ELSE Raised(f.exception)]
    /\ UNCHANGED <<message, thread, sent, called, besidesExecutor>>

NextExecute ==
    \/ \E r \in Requests : \E c \in ExecuteCalls : InternalExecute(r, c)
    \/ \E r \in Requests : \E c \in ExecuteCalls : ExternalExecute(r, c)
    \/ \E r \in Requests : StartExecutor(r)
    \/ \E r \in Requests : ImportModule(r)
    \/ \E r \in Requests : LookupFunction(r)
    \/ \E r \in Requests : CallFunction(r)
    \/ \E r \in Requests : SendResult(r)
    \/ \E r \in Requests : SendError(r)
    \/ \E r \in Requests : ReceiveAnswer(r)

SpecExecute == Init /\ [][NextExecute]_vars

\* ------------------------------------------------ log callbacks and the pump
\* launch(log_callback) past its launched() check: the callback (or None)
\* becomes the global one, and the process started has its output pumped
\* into launch_callback.
LaunchWithCallback(cb) ==
    /\ ~executing
    /\ global_log_callback' = cb
    /\ steady' = [steady EXCEPT ![GlobalCallback] = FALSE]
    /\ pump' = IF pump.at = "not started" THEN PumpAt("read", 0) ELSE pump
    /\ UNCHANGED <<execution_log_callback, executing, delivered, emitted, besidesPump>>

\* execute(..., log_callback) and runScript(..., log_callback): the callback
\* (or None) is the per-execution one until the call ends.
ExecuteBegins(cb) ==
    /\ ~executing
    /\ pump.at # "not started"
    /\ executing' = TRUE
    /\ execution_log_callback' = cb
    /\ steady' = [steady EXCEPT ![ExecutionCallback] = FALSE]
    /\ emitted' = [k \in DOMAIN emitted |-> FALSE]
    /\ UNCHANGED <<global_log_callback, pump, delivered, besidesPump>>

\* The finally clause of execute() and runScript().
ExecuteEnds ==
    /\ executing
    /\ executing' = FALSE
    /\ execution_log_callback' = "none"
    /\ steady' = [steady EXCEPT ![ExecutionCallback] = FALSE]
    /\ emitted' = [k \in DOMAIN emitted |-> FALSE]
    /\ UNCHANGED <<global_log_callback, pump, delivered, besidesPump>>

\* The worker process writes a line to its output, during a call or outside
\* one; the line waits in the pipe until the pump reads it.
WriteLine ==
    /\ pump.at # "not started"
    /\ Len(emitted) < MaxLines
    /\ emitted' = Append(emitted, executing)
    /\ UNCHANGED <<global_log_callback, execution_log_callback, executing, pump,
                   delivered, steady, besidesPump>>

\* The pump reads the next line of the process and hands it to
\* launch_callback.
ReadLine ==
    /\ pump.at = "read"
    /\ pump.line < MaxLines
    /\ pump.line < Len(emitted)
    /\ pump' = PumpAt("global", pump.line + 1)
    /\ steady' = [cb \in Callbacks |->
                    IF cb = GlobalCallback THEN global_log_callback # "none"
                    ELSE execution_log_callback # "none"]
    /\ UNCHANGED <<global_log_callback, execution_log_callback, executing, delivered,
                   emitted, besidesPump>>

\* combined_callback: if self._global_log_callback is not None.
CheckGlobal ==
    /\ pump.at = "global"
    /\ pump' = [pump EXCEPT !.at = IF global_log_callback # "none" THEN "global call"
                                   ELSE "execution"]
    /\ UNCHANGED <<global_log_callback, execution_log_callback, executing, delivered,
                   steady, emitted, besidesPump>>

\* Variant: an exception of the global callback ends combined_callback.
AfterGlobalUncaught(raised) == IF raised THEN "parse" ELSE "execution"
\* combined_callback: where it goes on after the global callback returned or
\* raised (except Exception: log the error).
AfterGlobal(raised) == "execution"

\* combined_callback: try: self._global_log_callback(line). The attribute
\* is read again: when it was set to None meanwhile, calling it raises
\* TypeError, which the except clause logs.
CallGlobal(raises) ==
    /\ pump.at = "global call"
    /\ IF global_log_callback = "none"
       THEN /\ raises
            /\ UNCHANGED delivered
       ELSE delivered' = Append(delivered, Invocation(global_log_callback, pump.line, raises))
    /\ pump' = [pump EXCEPT !.at = AfterGlobal(raises)]
    /\ UNCHANGED <<global_log_callback, execution_log_callback, executing, steady,
                   emitted, besidesPump>>

\* combined_callback: if self._execution_log_callback is not None.
CheckExecution ==
    /\ pump.at = "execution"
    /\ pump' = [pump EXCEPT !.at = IF execution_log_callback # "none" THEN "execution call"
                                   ELSE "parse"]
    /\ UNCHANGED <<global_log_callback, execution_log_callback, executing, delivered,
                   steady, emitted, besidesPump>>

\* combined_callback: try: self._execution_log_callback(line), the same way.
CallExecution(raises) ==
    /\ pump.at = "execution call"
    /\ IF execution_log_callback = "none"
       THEN /\ raises
            /\ UNCHANGED delivered
       ELSE delivered' = Append(delivered, Invocation(execution_log_callback, pump.line, raises))
    /\ pump' = [pump EXCEPT !.at = "parse"]
    /\ UNCHANGED <<global_log_callback, execution_log_callback, executing, steady,
                   emitted, besidesPump>>

\* launch_callback after combined(line): look for the port; the pump then
\* reads on.
ParseLine ==
    /\ pump.at = "parse"
    /\ pump' = [pump EXCEPT !.at = "read"]
    /\ UNCHANGED <<global_log_callback, execution_log_callback, executing, delivered,
                   steady, emitted, besidesPump>>

NextPump ==
    \/ \E cb \in {"none", GlobalCallback} : LaunchWithCallback(cb)
    \/ \E cb \in {"none", ExecutionCallback} : ExecuteBegins(cb)
    \/ ExecuteEnds
    \/ WriteLine
    \/ ReadLine
    \/ CheckGlobal
    \/ \E raises \in BOOLEAN : CallGlobal(raises)
    \/ CheckExecution
    \/ \E raises \in BOOLEAN : CallExecution(raises)
    \/ ParseLine

SpecPump == Init /\ [][NextPump]_vars

\* ------------------------------------------------ calls statement by statement
\* One effect of a call: what was done, the frame handed to connection.send
\* if any, and whether that send raised.
Effect(d) == [does |-> d, frame |-> [action |-> "none"], raised |-> FALSE]
SendEffect(f, r) == [does |-> "send", frame |-> f, raised |-> r]

\* Variant: the payload carries kwargs and run_name as the caller gave them.
MethodPayloadAsGiven(m) ==
    IF m.name = "execute"
    THEN [action |-> "execute", modulePath |-> m.path, function |-> "f", args |-> "args",
          kwargs |-> m.kwargs]
    ELSE IF m.name = "runScript"
    THEN [action |-> "run", scriptPath |-> m.path, args |-> "args", run_name |-> m.run_name]
    ELSE [action |-> "exit"]
\* The payloads the host hands to connection.send.
MethodPayload(m) ==
    IF m.name = "execute"
    THEN [action |-> "execute", modulePath |-> "str", function |-> "f", args |-> "args",
          kwargs |-> IF m.kwargs = "omitted" THEN "empty" ELSE m.kwargs]
    ELSE IF m.name = "runScript"
    THEN [action |-> "run", scriptPath |-> "str", args |-> "args",
          run_name |-> IF m.run_name = "omitted" THEN "__main__" ELSE m.run_name]
    ELSE [action |-> "exit"]

\* Variant: delete() and launch() never find the environment launched.
FieldsLaunchedNever == FALSE
\* launched() on the fields.
FieldsLaunched ==
    fields.process = "alive" /\ fields.connection = "open"

\* A method is called on the environment (the lock is free: no call is under way).
CallMethod(m) ==
    /\ stepping.at = "idle"
    /\ stepping' = SteppingAt(m, CASE m.name = "exit" -> "exit: send"
                                   [] m.name = "delete" -> "delete: check"
                                   [] OTHER -> "execute: set", "none")
    /\ effects' = <<>>
    /\ UNCHANGED <<fields, besidesSteps>>

\* launch() as a whole, when it succeeds: a process with its stdout and its
\* children, a connection to it.
BecomesLaunched ==
    /\ stepping.at = "idle"
    /\ ~FieldsLaunched
    /\ fields.onDisk
    /\ fields' = [fields EXCEPT !.connection = "open", !.process = "alive",
                                !.stdout = "open", !.children = "alive"]
    /\ stepping' = SteppingAt(NoMethod, "idle", "none")
    /\ effects' = <<>>
    /\ UNCHANGED besidesSteps

\* ExternalEnvironment(name, None, manager), constructed by a caller instead
\* of create() or load(): no path, nothing on disk, not registered.
ConstructedWithoutPath ==
    /\ stepping = SteppingAt(NoMethod, "idle", "none")
    /\ fields = FieldsNew
    /\ fields' = [FieldsNew EXCEPT !.path = "none", !.onDisk = FALSE, !.registered = FALSE]
    /\ UNCHANGED <<stepping, effects, besidesSteps>>

\* The worker process ends by itself, at any time.
WorkerGone ==
    /\ fields.process = "alive"
    /\ fields' = [fields EXCEPT !.process = "dead"]
    /\ UNCHANGED <<stepping, effects, besidesSteps>>

\* Variant: a send that raises ends _exit.
AfterExitSendRaising(raised) == IF raised THEN "exit: done" ELSE "exit: close"
\* _exit: the OSError of connection.send is caught; connection.close() follows.
AfterExitSend(raised) == "exit: close"

\* ExternalEnvironment._exit, statement by statement: send the exit frame if
\* there is a connection (a closed connection or a lost peer makes the send
\* raise), close the connection, close process.stdout, killProcess(process).
ExitSteps ==
    \/ /\ stepping.at = "exit: send"
       /\ IF fields.connection = "none"
          THEN /\ stepping' = [stepping EXCEPT !.at = "exit: stdout"]
               /\ UNCHANGED effects
          ELSE \E raised \in BOOLEAN :
                  /\ fields.connection = "closed" => raised
                  /\ (fields.connection = "open" /\ fields.process = "alive") => ~raised
                  /\ effects' = Append(effects, SendEffect(MethodPayload(
                                    [stepping.method EXCEPT !.name = "exit"]), raised))
                  /\ stepping' = [stepping EXCEPT !.at = AfterExitSend(raised)]
       /\ UNCHANGED <<fields, besidesSteps>>
    \/ /\ stepping.at = "exit: close"
       /\ fields' = [fields EXCEPT !.connection = "closed"]
       /\ effects' = Append(effects, Effect("close connection"))
       /\ stepping' = [stepping EXCEPT !.at = "exit: stdout"]
       /\ UNCHANGED besidesSteps
    \/ /\ stepping.at = "exit: stdout"
       /\ IF fields.process # "none" /\ fields.stdout # "none"
          THEN /\ fields' = [fields EXCEPT !.stdout = "closed"]
               /\ effects' = Append(effects, Effect("close stdout"))
          ELSE UNCHANGED <<fields, effects>>
       /\ stepping' = [stepping EXCEPT !.at = "kill: children"]
       /\ UNCHANGED besidesSteps

\* CommandExecutor.killProcess(process): the descendants of the process are
\* killed, then the process; nothing when there is no process.
KillSteps ==
    \/ /\ stepping.at = "kill: children"
       /\ IF fields.process = "none"
          THEN UNCHANGED <<fields, effects>>
          ELSE /\ fields' = [fields EXCEPT !.children = "dead"]
               /\ effects' = Append(effects, Effect("kill children"))
       /\ stepping' = [stepping EXCEPT !.at = "kill: process"]
       /\ UNCHANGED besidesSteps
    \/ /\ stepping.at = "kill: process"
       /\ IF fields.process = "none"
          THEN UNCHANGED <<fields, effects>>
          ELSE /\ fields' = [fields EXCEPT !.process = "dead"]
               /\ effects' = Append(effects, Effect("kill process"))
       /\ stepping' = [stepping EXCEPT !.at = "exit: done"]
       /\ UNCHANGED besidesSteps

\* After _exit: exit() removes the environment from the registry and
\* returns; delete() goes on.
ExitReturns ==
    /\ stepping.at = "exit: done"
    /\ IF stepping.method.name = "exit"
       THEN /\ fields' = [fields EXCEPT !.registered = FALSE]
            /\ effects' = Append(effects, Effect("remove"))
            /\ stepping' = [stepping EXCEPT !.at = "idle", !.result = "returned"]
       ELSE /\ stepping' = [stepping EXCEPT !.at = "delete: trash"]
            /\ UNCHANGED <<fields, effects>>
    /\ UNCHANGED besidesSteps

\* ExternalEnvironment.delete, statement by statement: raise when the
\* environment has no path or is not on disk, _exit() if launched(), send2trash, remove
\* from the registry.
DeleteSteps ==
    \/ /\ stepping.at = "delete: check"
       /\ stepping' = IF fields.path = "none" \/ ~fields.onDisk
                      THEN [stepping EXCEPT !.at = "idle", !.result = "raised"]
                      ELSE [stepping EXCEPT !.at = IF FieldsLaunched THEN "exit: send"
                                                   ELSE "delete: trash"]
       /\ UNCHANGED <<fields, effects, besidesSteps>>
    \/ /\ stepping.at = "delete: trash"
       /\ fields' = [fields EXCEPT !.onDisk = FALSE]
       /\ effects' = Append(effects, Effect("trash"))
       /\ stepping' = [stepping EXCEPT !.at = "delete: remove"]
       /\ UNCHANGED besidesSteps
    \/ /\ stepping.at = "delete: remove"
       /\ fields' = [fields EXCEPT !.registered = FALSE]
       /\ effects' = Append(effects, Effect("remove"))
       /\ stepping' = [stepping EXCEPT !.at = "idle", !.result = "returned"]
       /\ UNCHANGED besidesSteps

\* Variant: the callback slot is cleared only when the call returns a result.
ClearsSlotOnReturnOnly(result) == result = "returned"
\* execute() and runScript(): the finally clause clears the slot however
\* the try block ended.
ClearsSlot(result) == TRUE

\* How _sendAndWait ends once the payload is sent: a terminal frame
\* ('execution finished', 'error'), the end of the connection (None is
\* returned), an OSError other than EBADF (raised).
WaitEndings == {"returned", "raised ExecutionException", "returned None", "raised OSError"}

\* ExternalEnvironment.execute and runScript, statement by statement: set the
\* per-execution callback, build the payload, _sendAndWait, finally clear
\* the callback.
ExecuteSteps ==
    \/ /\ stepping.at = "execute: set"
       /\ fields' = [fields EXCEPT !.execution_log_callback = stepping.method.log_callback]
       /\ stepping' = [stepping EXCEPT !.at = "execute: check"]
       /\ UNCHANGED <<effects, besidesSteps>>
    \/ /\ stepping.at = "execute: check"
       /\ stepping' = IF fields.connection # "open"
                      THEN [stepping EXCEPT !.at = "execute: finally",
                                            !.result = "raised Connection not ready."]
                      ELSE [stepping EXCEPT !.at = "execute: send"]
       /\ UNCHANGED <<fields, effects, besidesSteps>>
    \/ /\ stepping.at = "execute: send"
       /\ \E raised \in BOOLEAN :
             /\ fields.process = "alive" => ~raised
             /\ effects' = Append(effects, SendEffect(MethodPayload(stepping.method), raised))
             /\ stepping' = IF raised
                            THEN [stepping EXCEPT !.at = "execute: finally",
                                                  !.result = "returned None"]
                            ELSE [stepping EXCEPT !.at = "execute: recv"]
       /\ UNCHANGED <<fields, besidesSteps>>
    \/ /\ stepping.at = "execute: recv"
       /\ \E ending \in WaitEndings :
             /\ ending \in {"returned", "raised ExecutionException"} => fields.process = "alive"
             /\ stepping' = [stepping EXCEPT !.at = "execute: finally", !.result = ending]
       /\ UNCHANGED <<fields, effects, besidesSteps>>
    \/ /\ stepping.at = "execute: finally"
       /\ fields' = IF ClearsSlot(stepping.result)
                    THEN [fields EXCEPT !.execution_log_callback = "none"]
                    ELSE fields
       /\ stepping' = [stepping EXCEPT !.at = "idle"]
       /\ UNCHANGED <<effects, besidesSteps>>

NextSteps ==
    \/ \E m \in MethodCalls : CallMethod(m)
    \/ BecomesLaunched
    \/ ConstructedWithoutPath
    \/ WorkerGone
    \/ ExitSteps
    \/ KillSteps
    \/ ExitReturns
    \/ DeleteSteps
    \/ ExecuteSteps

SpecSteps == Init /\ [][NextSteps]_vars

\* ------------------------------------------------------- registry of paths
\* The ways a create() of an unregistered name ends: the main environment is
\* returned, the python version is refused, the commands succeed, they fail.
CreateEndings == {"main", "refused", "created", "failed"}

\* EnvironmentManager.create(name, ...): a registered name returns its
\* instance; otherwise, unless the main environment answers or the version is
\* refused, an ExternalEnvironment with the path made from the name is
\* registered before the commands run, and stays registered if they fail.
CreateNamed(n, ending) ==
    /\ IF registered[n] # NoPath
       THEN /\ answered' = Answer("create", n, "existing")
            /\ UNCHANGED <<registered, existing>>
       ELSE /\ answered' = Answer("create", n, ending)
            /\ registered' =
                   IF ending \in {"created", "failed"}
                   THEN [registered EXCEPT ![n] = EnvironmentPathFromName(n)]
                   ELSE registered
            /\ existing' =
                   IF ending = "created"
                   THEN existing \cup {EnvironmentPathFromName(n)}
                   ELSE existing
    /\ UNCHANGED besidesPaths

\* EnvironmentManager.load(name, environmentPath): raises if the path is not
\* an environment; registers an ExternalEnvironment with that path unless the
\* name is registered; returns environments[name].
LoadNamed(n, p) ==
    /\ IF p \notin existing
       THEN /\ answered' = Answer("load", n, "not found")
            /\ UNCHANGED registered
       ELSE /\ answered' = Answer("load", n, "returned")
            /\ registered' =
                   IF registered[n] = NoPath THEN [registered EXCEPT ![n] = p]
                   ELSE registered
    /\ UNCHANGED <<existing, besidesPaths>>

\* ExternalEnvironment.exit() of a registered environment: the name leaves
\* the registry.
ExitNamed(n) ==
    /\ registered[n] # NoPath
    /\ registered' = [registered EXCEPT ![n] = NoPath]
    /\ answered' = Answer("exit", n, "returned")
    /\ UNCHANGED <<existing, besidesPaths>>

\* ExternalEnvironment.delete() of a registered environment: raises if its
\* directory is missing; otherwise trashes the directory and removes the name.
DeleteNamed(n) ==
    /\ registered[n] # NoPath
    /\ IF registered[n] \notin existing
       THEN /\ answered' = Answer("delete", n, "does not exist")
            /\ UNCHANGED <<registered, existing>>
       ELSE /\ answered' = Answer("delete", n, "returned")
            /\ existing' = existing \ {registered[n]}
            /\ registered' = [registered EXCEPT ![n] = NoPath]
    /\ UNCHANGED besidesPaths

NextPaths ==
    \/ \E n \in LoadNames, e \in CreateEndings : CreateNamed(n, e)
    \/ \E n \in LoadNames, p \in Paths : LoadNamed(n, p)
    \/ \E n \in LoadNames : ExitNamed(n)
    \/ \E n \in LoadNames : DeleteNamed(n)

SpecPaths == Init /\ [][NextPaths]_vars

\* ---------------------------------------------------------------- getOutput
\* line.strip(): the line without its leading and trailing whitespace.
RECURSIVE LStrip(_)
LStrip(line) ==
    IF line # <<>> /\ Head(line) \in Whitespace THEN LStrip(Tail(line)) ELSE line
RECURSIVE RStrip(_)
RStrip(line) ==
    IF line # <<>> /\ line[Len(line)] \in Whitespace
    THEN RStrip(SubSeq(line, 1, Len(line) - 1))
    ELSE line
Strip(line) == RStrip(LStrip(line))

\* "CondaSystemExit" in line
HasCondaSystemExit(line) == \E i \in 1..Len(line) : line[i] = "CondaSystemExit"

\* getOutput is called on a process that writes the given lines and, left
\* alone, exits with the given code; piped tells whether process.stdout is set.
GetOutput(lines, code, piped, strip) ==
    /\ capture.at \in {"idle", "returned", "raised"}
    /\ subprocess' =
           [state |-> "running", piped |-> piped, stdout |-> lines,
            written |-> lines, exitcode |-> code, returncode |-> 0]
    /\ capture' =
           [at |-> IF piped THEN "for" ELSE "wait", strip |-> strip,
            outputs |-> <<>>]
    /\ UNCHANGED besidesOutput

\* One turn of `for line in process.stdout`: strip, look for CondaSystemExit
\* (kill the process and raise), append.
ReadOutputLine ==
    /\ capture.at = "for"
    /\ subprocess.stdout # <<>>
    /\ LET read == Head(subprocess.stdout)
           line == IF capture.strip THEN Strip(read) ELSE read
       IN IF HasCondaSystemExit(line)
          THEN /\ subprocess' =
                      [subprocess EXCEPT !.stdout = Tail(@), !.state = "killed",
                                         !.returncode = Killed]
               /\ capture' = [capture EXCEPT !.at = "raised"]
          ELSE /\ subprocess' = [subprocess EXCEPT !.stdout = Tail(@)]
               /\ capture' = [capture EXCEPT !.outputs = Append(@, line)]
    /\ UNCHANGED besidesOutput

\* The process closed its output: the loop ends.
OutputEnds ==
    /\ capture.at = "for"
    /\ subprocess.stdout = <<>>
    /\ capture' = [capture EXCEPT !.at = "wait"]
    /\ UNCHANGED <<subprocess, besidesOutput>>

\* process.wait()
WaitProcess ==
    /\ capture.at = "wait"
    /\ subprocess' =
           [subprocess EXCEPT !.state = "exited", !.returncode = subprocess.exitcode]
    /\ capture' = [capture EXCEPT !.at = "check"]
    /\ UNCHANGED besidesOutput

\* process.returncode != 0
ReturncodeFailsNever(code) == FALSE
ReturncodeFails(code) == code # 0

\* `if process.returncode != 0: raise`, else `return outputs`.
CheckReturncode ==
    /\ capture.at = "check"
    /\ capture' =
           [capture EXCEPT
               !.at = IF ReturncodeFails(subprocess.returncode)
                      THEN "raised" ELSE "returned"]
    /\ UNCHANGED <<subprocess, besidesOutput>>

NextOutput ==
    \/ \E lines \in Outputs, code \in {0, 1}, piped \in BOOLEAN, strip \in BOOLEAN :
           GetOutput(lines, code, piped, strip)
    \/ ReadOutputLine
    \/ OutputEnds
    \/ WaitProcess
    \/ CheckReturncode

SpecOutput == Init /\ [][NextOutput]_vars

\* -------------------------------------------------------- _checkRequirement
\* The first position where the two characters a, b follow each other, or 0.
FirstOf(text, a, b) ==
    LET at == {i \in 1..(Len(text) - 1) : text[i] = a /\ text[i + 1] = b}
    IN  IF at = {} THEN 0 ELSE CHOOSE i \in at : \A j \in at : i <= j

\* text.split(ab) for a separator of two characters.
RECURSIVE Split2(_, _, _)
Split2(text, a, b) ==
    LET i == FirstOf(text, a, b)
    IN  IF i = 0 THEN <<text>>
        ELSE <<SubSeq(text, 1, i - 1)>> \o Split2(SubSeq(text, i + 2, Len(text)), a, b)

\* _removeChannel: split("::")[1] if "::" is in the dependency.
RemoveChannel(condaDependency) ==
    IF FirstOf(condaDependency, ":", ":") # 0
    THEN Split2(condaDependency, ":", ":")[2]
    ELSE condaDependency

\* _checkRequirement(dependency, packageManager, installedPackages)
CheckRequirement(dependency, packageManager, installedPackages) ==
    LET d == IF packageManager = "conda" THEN RemoveChannel(dependency) ELSE dependency
        nameVersion == Split2(d, "=", "=")
        packageManagerName == IF packageManager = "conda" THEN "conda" ELSE "pypi"
    IN  \E i \in 1..Len(installedPackages) :
            LET package == installedPackages[i]
            IN  /\ nameVersion[1] = package.name
                /\ Len(nameVersion) = 1 \/ StartsWith(package.version, nameVersion[2])
                /\ packageManagerName = package.kind

\* The reconciler checks one requirement against the installed packages.
CheckRequirementCalled(dependency, packageManager, installedPackages) ==
    /\ checked' =
           [dependency |-> dependency, packageManager |-> packageManager,
            installed |-> installedPackages,
            value |-> CheckRequirement(dependency, packageManager, installedPackages)]
    /\ UNCHANGED besidesRequirement

NextRequirement ==
    \E d \in RequirementTexts, pm \in {"pip", "conda"}, inst \in InstalledLists :
        CheckRequirementCalled(d, pm, inst)

SpecRequirement == Init /\ [][NextRequirement]_vars

\* ------------------------------------------------------ launches in debug mode
\* launch() up to the call of executeCommands: the worker is started with
\* --debugPort 0 and a thread pumps its lines into launch_callback; the
\* worker prints its debug port and then its port.
DebugLaunch(e) ==
    /\ debugging[e].launch = "idle"
    /\ debugging[e].launches < MaxDebugLaunches
    /\ debugging' =
           [debugging EXCEPT ![e] =
               [@ EXCEPT !.launch = "spawned", !.pump = "debug line",
                         !.debugPort = debugging[e].launches + 1, !.found = FALSE,
                         !.launches = @ + 1]]
    /\ UNCHANGED <<debugPorts, besidesDebug>>

\* self.process = self.executeCommands(...): the call returned.
AssignProcess(e) ==
    /\ debugging[e].launch = "spawned"
    /\ debugging' = [debugging EXCEPT ![e] = [@ EXCEPT !.launch = "waiting", !.process = TRUE]]
    /\ UNCHANGED <<debugPorts, besidesDebug>>

\* launch_callback gets the line "Listening debug port M" and calls
\* registerEnvironment.
PumpDebugLine(e) ==
    /\ debugging[e].pump = "debug line"
    /\ debugging' = [debugging EXCEPT ![e] = [@ EXCEPT !.pump = "check"]]
    /\ UNCHANGED <<debugPorts, besidesDebug>>

\* registerEnvironment: `if environment.process is None: return`.
RegisterCheck(e) ==
    /\ debugging[e].pump = "check"
    /\ debugging' =
           [debugging EXCEPT ![e] =
               [@ EXCEPT !.pump = IF debugging[e].process THEN "read" ELSE "port line"]]
    /\ UNCHANGED <<debugPorts, besidesDebug>>

\* registerEnvironment: json.load of debug_ports.json.
RegisterRead(e) ==
    /\ debugging[e].pump = "read"
    /\ debugging' = [debugging EXCEPT ![e] = [@ EXCEPT !.pump = "write", !.read = debugPorts]]
    /\ UNCHANGED <<debugPorts, besidesDebug>>

\* registerEnvironment: the entry of the environment is set in what was
\* read and the whole is written to debug_ports.json.
RegisterWrite(e) ==
    /\ debugging[e].pump = "write"
    /\ debugPorts' = [debugging[e].read EXCEPT ![e] = debugging[e].debugPort]
    /\ debugging' = [debugging EXCEPT ![e] = [@ EXCEPT !.pump = "port line", !.read = <<>>]]
    /\ UNCHANGED besidesDebug

\* launch_callback gets the line "Listening port N": port_found_event.set().
PumpPortLine(e) ==
    /\ debugging[e].pump = "port line"
    /\ debugging' = [debugging EXCEPT ![e] = [@ EXCEPT !.pump = "done", !.found = TRUE]]
    /\ UNCHANGED <<debugPorts, besidesDebug>>

\* launch(): port_found_event.wait returned true, the process runs, the
\* connection is opened.
DebugLaunchReturns(e) ==
    /\ debugging[e].launch = "waiting"
    /\ debugging[e].found
    /\ debugging' = [debugging EXCEPT ![e] = [@ EXCEPT !.launch = "launched"]]
    /\ UNCHANGED <<debugPorts, besidesDebug>>

\* exit() of a launched environment: the worker is killed; self.process
\* keeps referring to it.
DebugExit(e) ==
    /\ debugging[e].launch = "launched"
    /\ debugging' = [debugging EXCEPT ![e] = [@ EXCEPT !.launch = "idle", !.pump = "none"]]
    /\ UNCHANGED <<debugPorts, besidesDebug>>

NextDebug ==
    \/ \E e \in LoadNames : DebugLaunch(e)
    \/ \E e \in LoadNames : AssignProcess(e)
    \/ \E e \in LoadNames : PumpDebugLine(e)
    \/ \E e \in LoadNames : RegisterCheck(e)
    \/ \E e \in LoadNames : RegisterRead(e)
    \/ \E e \in LoadNames : RegisterWrite(e)
    \/ \E e \in LoadNames : PumpPortLine(e)
    \/ \E e \in LoadNames : DebugLaunchReturns(e)
    \/ \E e \in LoadNames : DebugExit(e)

SpecDebug == Init /\ [][NextDebug]_vars

\* ------------------------------------------------------------ command scripts
\* The lines _insertCommandErrorChecks puts after each command.
ErrorChecks(windows) ==
    IF windows
    THEN <<Line("", 0), Line("if (! $?) { exit 1 } ", 0)>>
    ELSE <<Line("", 0), Line("return_status=$?", 0),
           Line("if [ $return_status -ne 0 ]", 0), Line("then", 0),
           Line("    echo \"Errors encountered during execution. Exited with status: $return_status\"", 0),
           Line("    exit 1", 0), Line("fi", 0), Line("", 0)>>

\* Variant: one check, after the last command.
RECURSIVE InsertChecksAtTheEnd(_, _, _)
InsertChecksAtTheEnd(n, from, windows) ==
    IF from > n THEN (IF n = 0 THEN <<>> ELSE ErrorChecks(windows))
    ELSE <<Line("command", from)>> \o InsertChecksAtTheEnd(n, from + 1, windows)

\* _insertCommandErrorChecks(commands), for the commands from..n.
RECURSIVE InsertCommandErrorChecks(_, _, _)
InsertCommandErrorChecks(n, from, windows) ==
    IF from > n THEN <<>>
    ELSE <<Line("command", from)>> \o ErrorChecks(windows)
             \o InsertCommandErrorChecks(n, from + 1, windows)

\* executeCommands(commands, env, exitIfCommandError): the script is written
\* and the shell started on it.
ExecuteCommands(commands, exitIfCommandError, windows) ==
    /\ script.state \in {"none", "exited"}
    /\ script' =
           [NoScript EXCEPT
               !.state = "running", !.commands = commands,
               !.checks = exitIfCommandError, !.windows = windows,
               !.lines = IF exitIfCommandError
                         THEN InsertCommandErrorChecks(Len(commands), 1, windows)
                         ELSE [k \in 1..Len(commands) |-> Line("command", k)],
               !.at = 1]
    /\ UNCHANGED besidesScript

\* The first line with the given text at or after position i.
NextLine(lines, i, text) ==
    CHOOSE j \in i..Len(lines) :
        lines[j].text = text /\ \A k \in i..(j - 1) : lines[k].text # text

\* The shell runs the line it is at.
RunLine ==
    /\ script.state = "running"
    /\ script.at <= Len(script.lines)
    /\ LET line == script.lines[script.at]
           next == [script EXCEPT !.at = @ + 1]
           exits == [script EXCEPT !.state = "exited", !.exitcode = 1]
       IN  script' =
               CASE line.text = "command" ->
                        [next EXCEPT !.status = script.commands[line.command],
                                     !.ran = Append(@, line.command)]
                 [] line.text = "return_status=$?" ->
                        [next EXCEPT !.return_status = script.status, !.status = 0]
                 [] line.text = "if [ $return_status -ne 0 ]" ->
                        IF script.return_status # 0 THEN next
                        ELSE [script EXCEPT
                                 !.at = NextLine(script.lines, script.at, "fi") + 1,
                                 !.status = 0]
                 [] line.text = "    exit 1" -> exits
                 [] line.text = "if (! $?) { exit 1 } " ->
                        IF script.status # 0 THEN exits ELSE next
                 [] OTHER -> next
    /\ UNCHANGED besidesScript

\* The shell is past the last line: bash exits with the status of the last
\* command it ran, powershell -File with that status or with 0.
EndOfScript(code) ==
    /\ script.state = "running"
    /\ script.at > Len(script.lines)
    /\ code = script.status \/ (script.windows /\ code = 0)
    /\ script' = [script EXCEPT !.state = "exited", !.exitcode = code]
    /\ UNCHANGED besidesScript

NextScript ==
    \/ \E c \in CommandLists, e, w \in BOOLEAN : ExecuteCommands(c, e, w)
    \/ RunLine
    \/ \E code \in {0, 1} : EndOfScript(code)

SpecScript == Init /\ [][NextScript]_vars

\* ------------------------------------------------- the threads of the worker
\* What the client may send: a request, the exit order, a message with
\* another action, a message without an action, an empty message; "EOF" is
\* the client closing the connection.
WorkerMessages == {"execute", "exit", "other", "malformed", "empty", "EOF"}
WorkerFrame(a, x, c) == [action |-> a, by |-> x, connection |-> c]

\* The connection a thread sends on: the one the main thread accepted last,
\* the one an executor thread was started with.
ConnectionOf(x) == IF x = MainThread THEN sockets.accepted ELSE sockets.given[x]

\* The top of `while True`: print(f"Listening port {listener.address[1]}")
PrintListeningPort ==
    /\ threads[MainThread] = "announce"
    /\ sockets.announced < MaxConnections
    /\ sockets' = [sockets EXCEPT !.announced = @ + 1]
    /\ threads' = [threads EXCEPT ![MainThread] = "accept"]
    /\ UNCHANGED <<lock, sending, frames, besidesWorker>>

\* `with listener.accept() as connection`
AcceptConnection ==
    /\ threads[MainThread] = "accept"
    /\ sockets' = [sockets EXCEPT !.accepted = @ + 1, !.open = @ \cup {sockets.accepted + 1}]
    /\ threads' = [threads EXCEPT ![MainThread] = "recv"]
    /\ UNCHANGED <<lock, sending, frames, besidesWorker>>

\* One turn of `while message := getMessage(connection)`: an execute message
\* starts a functionExecutor thread on the connection, the exit order goes on
\* to send 'exited', an empty message ends the loop and the `with` of the
\* connection (which closes it) and the outer loop starts over, a message
\* without action or a failing recv() goes to the except clause.
GetMessage(m) ==
    /\ threads[MainThread] = "recv"
    /\ CASE m = "execute" ->
              \E t \in Tasks :
                  /\ threads[t] = "unstarted"
                  /\ \A u \in Tasks : u < t => threads[u] # "unstarted"
                  /\ threads' = [threads EXCEPT ![t] = "run"]
                  /\ sockets' = [sockets EXCEPT !.given[t] = sockets.accepted]
         [] m = "exit" ->
              /\ threads' = [threads EXCEPT ![MainThread] = "acquire: exited"]
              /\ UNCHANGED sockets
         [] m = "other" ->
              UNCHANGED <<threads, sockets>>
         [] m = "empty" ->
              /\ threads' = [threads EXCEPT ![MainThread] = "announce"]
              /\ sockets' = [sockets EXCEPT !.open = @ \ {sockets.accepted}]
         [] m \in {"malformed", "EOF"} ->
              /\ threads' = [threads EXCEPT ![MainThread] = "acquire: error"]
              /\ UNCHANGED sockets
    /\ UNCHANGED <<lock, sending, frames, besidesWorker>>

\* functionExecutor up to its first `with lock`: the function returned,
\* raised an Exception, or ended the thread with a SystemExit.
RunTask(t, ending) ==
    /\ threads[t] = "run"
    /\ threads' =
           [threads EXCEPT ![t] =
               CASE ending = "returned" -> "acquire: result"
                 [] ending = "raised" -> "acquire: error"
                 [] ending = "exits" -> "done"]
    /\ UNCHANGED <<lock, sending, frames, sockets, besidesWorker>>

\* threading.Lock.acquire: only a free lock is acquired.
WorkerLockFreeAlways == TRUE
WorkerLockFree == lock = {}

\* `with lock:` entered by the main thread or an executor thread.
EnterLock(x) ==
    /\ threads[x] \in {"acquire: result", "acquire: error", "acquire: exited"}
    /\ WorkerLockFree
    /\ lock' = lock \cup {x}
    /\ threads' =
           [threads EXCEPT ![x] =
               CASE threads[x] = "acquire: result" -> "send: result"
                 [] threads[x] = "acquire: error" -> "send: error"
                 [] threads[x] = "acquire: exited" -> "send: exited"]
    /\ UNCHANGED <<sending, frames, sockets, besidesWorker>>

\* connection.send(...) begins writing its frame.
BeginSend(x) ==
    /\ threads[x] \in {"send: result", "send: error", "send: exited"}
    /\ x \notin sending
    /\ sending' = sending \cup {x}
    /\ UNCHANGED <<lock, threads, frames, sockets, besidesWorker>>

\* The frame a thread is sending.
FrameAt(x) ==
    WorkerFrame(CASE threads[x] = "send: result" -> "execution finished"
                  [] threads[x] = "send: error" -> "error"
                  [] threads[x] = "send: exited" -> "exited",
                x, ConnectionOf(x))

\* connection.send(...) returns or raises and the `with lock` is left; a send
\* on a closed connection raises. A result whose send raised goes to the
\* except clause of functionExecutor; after 'exited' the main thread goes on
\* to close (a send that raised goes to the except clause of launchListener);
\* after the error frame of the main thread the connection is closed by its
\* `with` and the loop starts over (a send that raised ends launchListener,
\* closing the connection and the listener).
EndSend(x, raised) ==
    /\ x \in sending
    /\ ConnectionOf(x) \notin sockets.open => raised
    /\ sending' = sending \ {x}
    /\ lock' = lock \ {x}
    /\ frames' = IF raised THEN frames ELSE Append(frames, FrameAt(x))
    /\ threads' =
           [threads EXCEPT ![x] =
               CASE threads[x] = "send: result" ->
                        IF raised THEN "acquire: error" ELSE "done"
                 [] threads[x] = "send: exited" ->
                        IF raised THEN "acquire: error" ELSE "close"
                 [] threads[x] = "send: error" ->
                        IF x # MainThread THEN "done"
                        ELSE IF raised THEN "crashed" ELSE "announce"]
    /\ sockets' =
           IF x = MainThread /\ threads[x] = "send: error"
           THEN [sockets EXCEPT !.open = @ \ {sockets.accepted},
                                !.listener = IF raised THEN "closed" ELSE @]
           ELSE sockets
    /\ UNCHANGED besidesWorker

\* The exit order, after 'exited' was sent and the `with lock` left:
\* connection.close(); listener.close(); return.
CloseAndReturn ==
    /\ threads[MainThread] = "close"
    /\ sockets' = [sockets EXCEPT !.open = @ \ {sockets.accepted}, !.listener = "closed"]
    /\ threads' = [threads EXCEPT ![MainThread] = "returned"]
    /\ UNCHANGED <<lock, sending, frames, besidesWorker>>

NextWorker ==
    \/ PrintListeningPort
    \/ AcceptConnection
    \/ \E m \in WorkerMessages : GetMessage(m)
    \/ \E t \in Tasks, e \in {"returned", "raised", "exits"} : RunTask(t, e)
    \/ \E x \in WorkerThreads : EnterLock(x)
    \/ \E x \in WorkerThreads : BeginSend(x)
    \/ \E x \in WorkerThreads, raised \in BOOLEAN : EndSend(x, raised)
    \/ CloseAndReturn

SpecWorker == Init /\ [][NextWorker]_vars

\* ------------------------------------------------------------------ claims
\* A thread is inside a synchronized method of the environment.
InBody(t) == pc[t] \notin {"idle", "acquire", "exit_remove"}
\* A thread has sent a request and waits for its terminal frame.
InFlight(t) == pc[t] = "recv"
IsRequest(x) == x \in {"execute", "run"}
IsTerminal(f) == f \in TerminalFrames
\* A step in which thread t receives the frame at the head of the wire.
Receives(t) ==
    /\ pc[t] = "recv"
    /\ wire.toHost # <<>>
    /\ wire'.toHost = Tail(wire.toHost)
    /\ outcome'[t] # outcome[t]

\* C1: execute, runScript, launch, launched, exit, delete and update of one
\* environment exclude each other: at most one thread is inside one of them,
\* and it holds the lock; at most one request is outstanding on the
\* connection (sent and neither answered nor failed), and at most one request
\* or terminal frame is on the wire.
C1_OneRequestAtATime ==
    /\ Cardinality({t \in Threads : InBody(t)}) <= 1
    /\ \A t \in Threads : InBody(t) => lockOwner = t
    /\ Cardinality({t \in Threads : InFlight(t)}) <= 1
    /\ Len(SelectSeq(wire.toWorker, IsRequest)) + Len(SelectSeq(wire.toHost, IsTerminal)) <= 1

\* C1 witness: a request is in flight while another thread has called a
\* method and waits for the lock.
C1_Witness ==
    \E t, u \in Threads :
        /\ InFlight(t)
        /\ wire.toWorker # <<>>
        /\ pc[u] = "acquire"
        /\ op[u] \in {"execute", "exit"}

\* C2: in the receive loop, a frame whose action is neither 'execution
\* finished' nor 'error' is logged and skipped, the call staying in the loop;
\* an 'execution finished' frame ends the call, which returns the frame's
\* result field.
C2_SkipUntilTerminal ==
    [][\A t \in Threads :
        Receives(t) =>
            LET m == Head(wire.toHost) IN
            /\ m.action \notin {"execution finished", "error"} =>
                  /\ pc'[t] = "recv"
                  /\ outcome'[t].kind = "pending"
                  /\ outcome'[t].skipped = outcome[t].skipped + 1
                  /\ outcome'[t].log = "Got an unexpected message"
            /\ m.action = "execution finished" =>
                  /\ pc'[t] = "release"
                  /\ outcome'[t].kind = "return"
                  /\ outcome'[t].value = m.result]_vars

\* C2 witness: a call returns a result after the loop skipped two frames.
C2_Witness ==
    \E t \in Threads :
        /\ pc[t] = "release"
        /\ op[t] \in {"execute", "runScript"}
        /\ outcome[t].kind = "return"
        /\ outcome[t].value \in Results
        /\ outcome[t].skipped = 2

\* C3: an 'error' frame ends the call with ExecutionException carrying the
\* frame's exception string and traceback lines; no result is returned.
C3_ErrorFrameRaises ==
    [][\A t \in Threads :
        (Receives(t) /\ Head(wire.toHost).action = "error") =>
            /\ pc'[t] = "release"
            /\ outcome'[t].kind = "raise"
            /\ outcome'[t].value = "ExecutionException"
            /\ outcome'[t].exception = Head(wire.toHost).exception
            /\ outcome'[t].traceback = Head(wire.toHost).traceback]_vars

\* C3 witness: a call ends with the ExecutionException of an error frame.
C3_Witness ==
    \E t \in Threads :
        /\ pc[t] = "release"
        /\ op[t] \in {"execute", "runScript"}
        /\ outcome[t].kind = "raise"
        /\ outcome[t].value = "ExecutionException"
        /\ outcome[t].exception \in ExceptionStrings
        /\ outcome[t].traceback \in Tracebacks

\* C4: when send or recv raises EOFError, BrokenPipeError or an OSError of
\* errno 9, the call logs it and returns None; an OSError of another errno is
\* raised to the caller.
C4_CommErrors ==
    [][\A t \in Threads :
        (pc[t] = "except" /\ pc'[t] # "except") =>
            /\ pc'[t] = "release"
            /\ IF \/ outcome[t].value \in {"EOFError", "BrokenPipeError"}
                  \/ (outcome[t].value = "OSError" /\ outcome[t].errno = 9)
               THEN /\ outcome'[t].kind = "return"
                    /\ outcome'[t].value = "None"
                    /\ outcome'[t].log # ""
               ELSE /\ outcome'[t].kind = "raise"
                    /\ outcome'[t].value = "OSError"
                    /\ outcome'[t].errno = outcome[t].errno]_vars

\* C4 witness: a call whose recv or send raised OSError errno 9 has logged
\* it and returns None.
C4_Witness ==
    \E t \in Threads :
        /\ pc[t] = "release"
        /\ op[t] \in {"execute", "runScript"}
        /\ outcome[t].kind = "return"
        /\ outcome[t].value = "None"
        /\ outcome[t].log = "Connection closed abruptly by the peer."

C6_ExitDoesNotWait ==
    \A t, u \in Threads :
        (pc[t] = "acquire" /\ op[t] = "exit" /\ InFlight(u)) => ENABLED Acquire(t)

\* C7: launch() on a launched environment returns at once: no process is
\* spawned, and process, port and connection are left as they are.
C7_LaunchIdempotent ==
    [][\A t \in Threads :
        (pc[t] = "launch_body" /\ pc'[t] # "launch_body" /\ Launched) =>
            /\ pc'[t] = "launch_return"
            /\ outcome'[t] = Return("None")
            /\ UNCHANGED <<process, port, connection, wire, procs, spawnCount, portFound>>]_vars

\* C7 witness: a launch() found the environment launched and returns.
C7_Witness ==
    \E t \in Threads : pc[t] = "launch_return" /\ Launched /\ spawnCount = 1

\* The worker processes of the environment that run.
LiveWorkers == Alive(procs)

\* C8: at most one worker process spawned by the environment is alive.
C8_AtMostOneLiveWorker == Cardinality(LiveWorkers) <= 1

\* C9: launched() returns true exactly when the process was spawned and has
\* not exited and the connection exists, is not closed, and is readable and
\* writable; in every state launched() implies a live process and an open
\* connection.
C9_LaunchedMeansAliveAndOpen ==
    /\ [](Launched => /\ process \in LiveWorkers
                      /\ connection.exists
                      /\ ~connection.closed)
    /\ [][\A t \in Threads :
            (pc[t] = "launched_body" /\ pc'[t] # "launched_body") =>
                /\ outcome'[t].kind = "return"
                /\ outcome'[t].value = "True" <=>
                      /\ process \in LiveWorkers
                      /\ connection.exists
                      /\ ~connection.closed
                      /\ connection.readable
                      /\ connection.writable]_vars

\* C9 witness: launched() returns true.
C9_Witness ==
    \E t \in Threads :
        /\ pc[t] = "release"
        /\ op[t] = "launched"
        /\ outcome[t] = Return("True")
        /\ Launched

\* launch() raises one of its three failures.
LaunchFailed(t) ==
    /\ pc[t] = "release"
    /\ op[t] = "launch"
    /\ outcome[t].kind = "raise"
    /\ outcome[t].exception \in {"Timeout waiting for server port.",
                                 "Process exited with return code.",
                                 "Could not find the server port."}

\* C10: when launch() raises, the process it spawned is not alive and
\* launched() is false.
C10_FailedLaunchKillsWorker ==
    \A t \in Threads :
        LaunchFailed(t) => (process \notin LiveWorkers /\ ~Launched)

\* A step in which launch() opens its connection.
Connects(t) == pc[t] = "launch_connect" /\ connection' # connection

\* C11: launch() opens the connection only after the port line of the worker
\* it spawned was read, and to the port that line names; reading an unrelated
\* line leaves the recorded port as it is.
C11_ConnectsToAnnouncedPort ==
    /\ [][\A t \in Threads :
            Connects(t) =>
                /\ procs[process] = "listening"
                /\ port = PortOf(process)
                /\ connection'.peer = process]_vars
    /\ [](\A line \in UnrelatedLines : ParsePort(line, port) = port)

\* ------------------------------------------------------- claims: the manager
\* A step that is a call of create().
Creates == call'.op = "create" /\ call' # call
\* A step that is a call of exit() or launch() on the constructed environment i.
Exits(i) == call'.op = "exit" /\ call'.self = External(i)
Launches(i) == call'.op = "launch" /\ call'.self = External(i)

CreatesAgain ==
    /\ call.op = "create"
    /\ call.raised = ""
    /\ Creates
    /\ call'.name = call.name

\* C13 as stated: a create() that follows a create() of the same name, whatever
\* the two dependency sets, returns what the first one returned.
C13_CreateTwiceSameInstance ==
    [][CreatesAgain => (call'.raised = "" /\ call'.result = call.result)]_vars

\* C13 amended: when the first create() returned an External environment, the
\* second returns that same object.
C13_CreateTwiceSameExternal ==
    [][(CreatesAgain /\ call.result.kind = "external")
          => (call'.raised = "" /\ call'.result = call.result)]_vars

\* C13 witness: a create() found the name in the registry and returned the
\* registered object without asking the reconciler or running a command.
C13_Witness ==
    /\ call.op = "create"
    /\ call.result.kind = "external"
    /\ call.result = environments[call.name]
    /\ call.reconciler = "not asked"
    /\ call.commands = <<>>

\* The commands of a call that create or change an environment.
ChangingCommands(c) == SelectSeq(c.commands, LAMBDA x : x.cmd # "list")

\* A create() with forceExternal of a name that is not registered returns a
\* newly constructed and registered External environment, unless it raises.
ForcedCreateRegisters ==
    (Creates /\ call'.forceExternal /\ environments[call'.name] = Absent /\ call'.raised = "")
        => /\ call'.result.kind = "external"
           /\ call'.result.id \notin Constructed
           /\ environments'[call'.name] = call'.result
           /\ ChangingCommands(call') # <<>>

\* C14 as stated: create() without forceExternal returns the main environment
\* and runs no command at all when the reconciler finds the dependencies
\* met; with forceExternal it creates and registers an External environment.
C14_MainEnvironmentNoCommand ==
    [][/\ (Creates /\ call'.reconciler = "met")
            => (call'.result = Main /\ call'.commands = <<>>)
       /\ ForcedCreateRegisters]_vars

\* C14 amended: create() without forceExternal returns the main environment,
\* registers nothing and runs no command that creates an environment or
\* installs into one when the reconciler finds the dependencies met (the
\* reconciler's own listing of the installed packages is the only command);
\* with forceExternal it creates and registers an External environment.
C14_MainEnvironmentNoCreation ==
    [][/\ (Creates /\ call'.reconciler = "met")
            => /\ call'.result = Main
               /\ ChangingCommands(call') = <<>>
               /\ UNCHANGED <<environments, instances>>
       /\ ForcedCreateRegisters]_vars

\* C14 witness: the reconciler listed the packages of the main environment,
\* found the dependencies met, and create() returned the main environment.
C14_Witness ==
    /\ call.op = "create"
    /\ call.reconciler = "met"
    /\ call.result = Main
    /\ call.commands = <<Command("list", <<>>)>>
    /\ call.dependencies.pip # <<>>

\* A structured entry whose platforms list is not empty and does not name the
\* current platform.
Foreign(d) ==
    d.structured /\ ~d.all /\ Len(d.platforms) > 0 /\ ~InList(CurrentPlatform, d.platforms)
Entries(dependencies) ==
    {dependencies.conda[k] : k \in 1..Len(dependencies.conda)}
        \cup {dependencies.pip[k] : k \in 1..Len(dependencies.pip)}
HasForeignRequired(dependencies) ==
    \E d \in Entries(dependencies) : Foreign(d) /\ ~d.optional
\* No package of an optional entry for another platform is installed.
OptionalForeignLeftOut ==
    \A d \in Entries(call'.dependencies) :
        (Foreign(d) /\ d.optional) =>
            \A k \in 1..Len(call'.commands) :
                ~InList(Quote(d.name), call'.commands[k].packages)

\* C15 as stated: every create() whose dependencies hold a non-optional entry
\* for other platforms only raises the incompatibility error; an optional
\* such entry raises nothing and is in no install list.
C15_IncompatibleRaises ==
    [][Creates =>
          /\ HasForeignRequired(call'.dependencies)
                <=> call'.raised = "IncompatibilityException"
          /\ OptionalForeignLeftOut]_vars

\* A create() that gets as far as composing the install commands: the name
\* is not registered, the main environment is not used, the Python version
\* is accepted.
ReachesInstall ==
    /\ Creates
    /\ environments[call'.name] = Absent
    /\ call'.result # Main
    /\ call'.raised # "Python version must be greater than 3.8"

\* C15 amended: every create() that gets as far as composing the install
\* commands raises the incompatibility error exactly when a non-optional
\* entry is for other platforms only; an optional such entry raises nothing
\* and is in no install list.
C15_IncompatibleRaisesAtInstall ==
    [][/\ ReachesInstall =>
            (HasForeignRequired(call'.dependencies)
                <=> call'.raised = "IncompatibilityException")
       /\ Creates => OptionalForeignLeftOut]_vars

\* C15 witness: a create() raised the incompatibility error.
C15_Witness ==
    /\ call.op = "create"
    /\ call.raised = "IncompatibilityException"
    /\ HasForeignRequired(call.dependencies)

\* The requested version read as numbers: lower than 3.9.
RequestedLowerThan39(python) ==
    LET t == RemoveEquals(python) IN
    /\ t # <<>>
    /\ IsDigit(t[1])
    /\ LET j == RunEnd(t, 1)
           major == ToInt(SubSeq(t, 1, j))
           hasMinor == j + 2 <= Len(t) /\ t[j + 1] = "." /\ IsDigit(t[j + 2])
       IN  major < 3
           \/ (major = 3 /\ hasMinor /\ ToInt(SubSeq(t, j + 2, RunEnd(t, j + 2))) < 9)

\* C16: a create() that neither finds the name registered nor uses the main
\* environment raises 'Python version must be greater than 3.8' exactly when
\* the requested version is lower than 3.9, and then nothing is registered
\* and no command was run.
C16_InvalidPythonRaises ==
    [][(Creates /\ environments[call'.name] = Absent /\ call'.result # Main) =>
          /\ RequestedLowerThan39(call'.dependencies.python)
                <=> call'.raised = "Python version must be greater than 3.8"
          /\ call'.raised = "Python version must be greater than 3.8"
                => (call'.commands = <<>> /\ UNCHANGED <<environments, instances>>)]_vars

\* ------------------------------------------------------- claims: execute()
\* The frames the worker sent for request r.
FramesFor(r) == {k \in 1..Len(sent) : sent[k].request = r}
\* The function of request r returns and what it returns can be sent.
Succeeds(c) ==
    c.module.imports /\ c.module.defines /\ c.module.body = "returns" /\ c.module.picklable

\* C17: for every execute request the worker received it sends at most one
\* terminal frame, and once the request's executor thread has ended exactly
\* one: 'execution finished' if the function returned and its result was
\* sent, 'error' if the import, the lookup, the call or the send failed.
C17_OneTerminalFrame ==
    \A r \in Requests :
        /\ Cardinality(FramesFor(r)) <= 1
        /\ thread[r].at = "ended" =>
              /\ Cardinality(FramesFor(r)) = 1
              /\ \A k \in FramesFor(r) :
                    sent[k].action = IF Succeeds(message[r]) THEN "execution finished"
                                     ELSE "error"

\* The module of request r is imported and has no function of the name asked.
MissingFunction(r) ==
    /\ message[r] # NoMessage
    /\ message[r].module.imports
    /\ ~message[r].module.defines

\* C18: an execute() of a function the module does not define never calls a
\* function; on an Internal environment it raises 'has no function'; on an
\* External environment the worker answers with an 'error' frame carrying
\* 'has no function' and nothing else, and the caller raises it.
C18_MissingFunctionRaises ==
    \A r \in Requests :
        MissingFunction(r) =>
            /\ ~called[r]
            /\ message[r].environment = "internal" => answer[r] = Raised(HasNoFunction)
            /\ message[r].environment = "external" =>
                  /\ \A k \in FramesFor(r) : sent[k] = ErrorFrame(r, HasNoFunction)
                  /\ thread[r].at = "ended" => FramesFor(r) # {}
                  /\ answer[r] \in {Waiting, Raised(HasNoFunction)}

\* C18 witness: a missing function was asked of an Internal and of an External
\* environment, and both callers got the 'has no function' error.
C18_Witness ==
    \E q, r \in Requests :
        /\ MissingFunction(q) /\ message[q].environment = "internal"
        /\ MissingFunction(r) /\ message[r].environment = "external"
        /\ answer[q] = Raised(HasNoFunction)
        /\ answer[r] = Raised(HasNoFunction)
        /\ thread[r].at = "ended"

\* C19: what execute() returns is f(*args, **kwargs): the product of the
\* argument and the y given as keyword argument (the default y when none is
\* given), on Internal and External environments alike.
C19_KwargsApplied ==
    \A r \in Requests :
        answer[r].state = "returned" =>
            answer[r].result = Prod(message[r].args, message[r].kwargs.y)

\* ---------------------------------------------------- claims: log callbacks
\* The invocations of callback cb with line n.
InvocationsOf(cb, n) ==
    {k \in 1..Len(delivered) : delivered[k].callback = cb /\ delivered[k].line = n}

\* C20: no callback is invoked twice with a line; once combined_callback is
\* through with a line, each callback that was registered from the reading
\* of the line on was invoked exactly once with it, whether or not the
\* other callback raised; and the pump is then ready to read the next line.
C20_EachCallbackOncePerLine ==
    /\ \A cb \in Callbacks : \A n \in 1..MaxLines : Cardinality(InvocationsOf(cb, n)) <= 1
    /\ \A k \in 1..Len(delivered) : delivered[k].line <= pump.line
    /\ pump.at \in {"parse", "read"} =>
          \A cb \in Callbacks :
              steady[cb] => Cardinality(InvocationsOf(cb, pump.line)) = 1
    /\ pump.at \in {"not started", "read", "global", "global call", "execution",
                    "execution call", "parse"}

\* C20 witness: the global callback raised on a line, the per-execution
\* callback was invoked with the same line, and both were invoked with a
\* later line.
C20_Witness ==
    \E i, j \in 1..Len(delivered) : \E n \in 1..MaxLines :
        /\ delivered[i] = Invocation(GlobalCallback, n, TRUE)
        /\ delivered[j].callback = ExecutionCallback /\ delivered[j].line = n
        /\ n < pump.line
        /\ InvocationsOf(GlobalCallback, pump.line) # {}
        /\ InvocationsOf(ExecutionCallback, pump.line) # {}
        /\ pump.at = "read"

\* ----------------------------------------- claims: calls statement by statement
\* The place of an effect in the order of a teardown.
Rank(d) ==
    CASE d = "send" -> 1 [] d = "close connection" -> 2 [] d = "close stdout" -> 3
      [] d = "kill children" -> 4 [] d = "kill process" -> 5 [] d = "trash" -> 6
      [] d = "remove" -> 7
Does(d) == \E k \in 1..Len(effects) : effects[k].does = d
\* The call under way, or the last one, is a call of method n.
Calling(n) == stepping.method.name = n
Ended(n) == Calling(n) /\ stepping.at = "idle"

\* C21: delete() exits the worker if it is launched, then moves the directory
\* to the trash, then removes the name from the registry, in this order;
\* once it has returned, the name is not registered, the directory is gone
\* and launched() is false; when the environment has no path or is not on
\* disk it raises having done nothing and changes nothing.
C21_DeleteInOrder ==
    /\ [](Calling("delete") =>
            /\ \A i, j \in 1..Len(effects) :
                  i < j => Rank(effects[i].does) < Rank(effects[j].does)
            /\ Does("remove") => Does("trash")
            /\ (Ended("delete") /\ stepping.result = "returned") =>
                  /\ Does("trash") /\ Does("remove")
                  /\ ~fields.registered
                  /\ ~fields.onDisk
                  /\ ~(fields.process = "alive" /\ fields.connection = "open")
            /\ (Ended("delete") /\ stepping.result = "raised") => effects = <<>>)
    /\ [][(Calling("delete") /\ stepping.at # "idle" /\ stepping'.result = "raised")
             => /\ fields.path = "none" \/ ~fields.onDisk
                /\ fields' = fields
                /\ effects' = <<>>]_vars
    /\ [](Ended("delete") /\ (fields.path = "none" \/ ~fields.onDisk)
             => stepping.result = "raised" \/ Does("trash"))

\* C21 witness: delete() returned on an environment that was launched: the
\* worker was exited, the directory trashed, the name removed.
C21_Witness ==
    /\ Ended("delete")
    /\ stepping.result = "returned"
    /\ Does("kill process") /\ Does("trash") /\ Does("remove")
    /\ fields.connection = "closed"

\* The effects of _exit in the call under way, in the order they happened.
ExitEffects ==
    SelectSeq(effects, LAMBDA e : e.does \in {"send", "close connection", "close stdout",
                                              "kill children", "kill process"})

\* C27: _exit sends the exit frame, closes the connection, closes stdout,
\* kills the children and then the process, in this order and each at most
\* once; when it is through, there is no open connection, no open stdout
\* and no running process or child, and a connection that was there was
\* closed even when the send raised.
C27_ExitInOrder ==
    /\ (Calling("exit") \/ Calling("delete")) =>
          \A k \in 1..Len(ExitEffects) :
              /\ k > 1 => Rank(ExitEffects[k - 1].does) < Rank(ExitEffects[k].does)
              /\ ExitEffects[k].does = "send" => ExitEffects[k].frame = [action |-> "exit"]
    /\ stepping.at = "exit: done" =>
          /\ fields.connection # "open"
          /\ fields.stdout # "open"
          /\ fields.children # "alive"
          /\ fields.process # "alive"
          /\ Does("send") => Does("close connection")
          /\ fields.process # "none" => (Does("kill children") /\ Does("kill process"))

\* C27 witness: the send of the exit frame raised, and _exit went through:
\* the connection and stdout were closed, the children and the process killed.
C27_Witness ==
    /\ Calling("exit")
    /\ stepping.at = "exit: done"
    /\ Len(ExitEffects) = 5
    /\ ExitEffects[1].raised

\* The frames the host handed to connection.send in the call under way.
Sends == SelectSeq(effects, LAMBDA e : e.does = "send")
\* The frame of an execute or runScript call, as the protocol gives it.
ProtocolFrame(m) ==
    IF m.name = "execute"
    THEN [action |-> "execute", modulePath |-> "str", function |-> "f", args |-> "args",
          kwargs |-> CASE m.kwargs = "y=2" -> "y=2" [] OTHER -> "empty"]
    ELSE [action |-> "run", scriptPath |-> "str", args |-> "args",
          run_name |-> CASE m.run_name = "main2" -> "main2" [] OTHER -> "__main__"]
OneFrameAtMost ==
    (Calling("execute") \/ Calling("runScript")) =>
        /\ Len(Sends) <= 1
        /\ \A k \in 1..Len(Sends) : Sends[k].frame = ProtocolFrame(stepping.method)

C29_SlotOnlyDuringCall ==
    /\ stepping.at \in {"execute: check", "execute: send", "execute: recv", "execute: finally"}
          => fields.execution_log_callback = stepping.method.log_callback
    /\ stepping.at \notin {"execute: check", "execute: send", "execute: recv", "execute: finally"}
          => fields.execution_log_callback = "none"

\* C29 witness: a call with a callback ended by raising, and the slot is None.
C29_Witness ==
    /\ Ended("execute")
    /\ stepping.method.log_callback = "callback"
    /\ stepping.result = "raised ExecutionException"
    /\ fields.execution_log_callback = "none"

\* ------------------------------------------------------------ claims: update
\* Thread t ends the body of its update() in this step.
Updates(t) == pc[t] = "update_body" /\ pc'[t] = "release"

C23_PathsAreUnique ==
    \A n1, n2 \in LoadNames :
        (n1 # n2 /\ registered[n1] # NoPath /\ registered[n2] # NoPath)
            => registered[n1] # registered[n2]

\* --------------------------------------------------------- claims: getOutput
\* The lines of the process that getOutput can read.
Readable == IF subprocess.piped THEN subprocess.written ELSE <<>>
CondaLines == {i \in 1..Len(Readable) : HasCondaSystemExit(Readable[i])}
FirstCondaLine == CHOOSE i \in CondaLines : \A j \in CondaLines : i <= j

C24_WitnessReturned ==
    /\ capture.at = "returned"
    /\ Len(capture.outputs) = 2
    /\ capture.strip
    /\ capture.outputs[2] # subprocess.written[2]

\* -------------------------------------------------- claims: _checkRequirement
\* text.split(c) for a separator of one character.
RECURSIVE Split1(_, _)
Split1(text, c) ==
    LET at == {i \in 1..Len(text) : text[i] = c}
    IN  IF at = {} THEN <<text>>
        ELSE LET i == CHOOSE k \in at : \A j \in at : k <= j
             IN  <<SubSeq(text, 1, i - 1)>> \o Split1(SubSeq(text, i + 1, Len(text)), c)

\* The numbers of a version: "1.20.0" is <<1, 20, 0>>.
VersionNumbers(version) ==
    LET parts == Split1(version, ".") IN [i \in 1..Len(parts) |-> ToInt(parts[i])]

\* Version-number comparison, a missing number counting as 0: -1, 0 or 1.
RECURSIVE CompareNumbers(_, _)
CompareNumbers(v, w) ==
    IF v = <<>> /\ w = <<>> THEN 0
    ELSE LET x == IF v = <<>> THEN 0 ELSE Head(v)
             y == IF w = <<>> THEN 0 ELSE Head(w)
         IN  IF x < y THEN -1
             ELSE IF x > y THEN 1
             ELSE CompareNumbers(IF v = <<>> THEN v ELSE Tail(v),
                                 IF w = <<>> THEN w ELSE Tail(w))

OperatorCharacters == {"=", "!", ">", "<", "~"}
\* The operator a clause starts with and the version that follows it.
ClauseOperator(clause) ==
    SelectSeq(clause, LAMBDA c : c \in OperatorCharacters)
ClauseVersion(clause) ==
    VersionNumbers(SelectSeq(clause, LAMBDA c : c \notin OperatorCharacters))

\* A version satisfies one clause of a constraint.
SatisfiesClause(version, clause) ==
    LET v == VersionNumbers(version)
        w == ClauseVersion(clause)
        o == ClauseOperator(clause)
        c == CompareNumbers(v, w)
    IN  CASE o = <<"=", "=">> -> c = 0
          [] o = <<"!", "=">> -> c # 0
          [] o = <<">", "=">> -> c >= 0
          [] o = <<"<", "=">> -> c <= 0
          [] o = <<">">> -> c > 0
          [] o = <<"<">> -> c < 0
          [] o = <<"~", "=">> -> c >= 0 /\ CompareNumbers(v, <<w[1] + 1>>) < 0
          [] OTHER -> FALSE

\* The requirement without its channel prefix (conda requirements have
\* one): its name, its clauses.
Unprefixed(dependency, packageManager) ==
    LET i == FirstOf(dependency, ":", ":")
    IN  IF i = 0 \/ packageManager # "conda" THEN dependency
        ELSE SubSeq(dependency, i + 2, Len(dependency))
RequirementName(dependency, packageManager) ==
    <<Head(Unprefixed(dependency, packageManager))>>
RequirementClauses(dependency, packageManager) ==
    LET rest == Tail(Unprefixed(dependency, packageManager))
    IN  IF rest = <<>> THEN <<>> ELSE Split1(rest, ",")

\* Some installed record has the name and the kind and a version that
\* satisfies every clause.
RequirementSatisfied(dependency, packageManager, installedPackages) ==
    \E i \in 1..Len(installedPackages) :
        LET package == installedPackages[i]
            clauses == RequirementClauses(dependency, packageManager)
        IN  /\ package.name = RequirementName(dependency, packageManager)
            /\ package.kind = (IF packageManager = "conda" THEN "conda" ELSE "pypi")
            /\ \A k \in 1..Len(clauses) : SatisfiesClause(package.version, clauses[k])

\* C25: _checkRequirement returns true if and only if some installed record
\* has the requirement's name and kind and a version that satisfies every
\* comma-joined clause of its constraint under version-number comparison
\* (==, !=, >=, <=, >, <, ~=; no clause: any version), the channel prefix
\* being stripped before matching.
C25_CheckRequirementIsVersionAlgebra ==
    checked.packageManager # "none" =>
        (checked.value
            <=> RequirementSatisfied(checked.dependency, checked.packageManager,
                                     checked.installed))

\* ------------------------------------------- claims: the host's satisfaction
\* The last call asked whether the host satisfies its dependencies.
HostAsked == call.op = "create" /\ call.reconciler # "not asked"
\* The host's Python version starts with the requested one.
PythonCheckPasses == StartsWith(HostPython, RemoveEquals(call.dependencies.python))
\* A command that lists installed packages was run.
ListedPackages == \E k \in 1..Len(call.commands) : call.commands[k].cmd = "list"

\* C26: the check of the host answered without listing packages: not
\* satisfied when a python version is requested that the host's version does
\* not start with; not satisfied when there are conda entries and the main
\* environment has no path; satisfied when there is no conda and no pip entry
\* and the python check passes.
C26_AnswersWithoutListing ==
    HostAsked =>
        /\ ~PythonCheckPasses =>
               (call.reconciler = "unmet" /\ ~ListedPackages)
        /\ (call.dependencies.conda # <<>> /\ ~mainPath) =>
               (call.reconciler = "unmet" /\ ~ListedPackages)
        /\ (call.dependencies.conda = <<>> /\ call.dependencies.pip = <<>>
                /\ PythonCheckPasses) =>
               (call.reconciler = "met" /\ ~ListedPackages)

\* C26 witness: conda entries were asked for with a python version the host
\* does not have, on a manager whose main environment has a path: the answer
\* was given without listing its packages.
C26_Witness ==
    /\ HostAsked
    /\ mainPath
    /\ call.dependencies.conda # <<>>
    /\ ~PythonCheckPasses
    /\ call.reconciler = "unmet"
    /\ ~ListedPackages

\* ------------------------------------------- claims: the threads of the worker
\* C30: in the worker every thread that is inside connection.send (a result
\* frame, an error frame or 'exited', from an executor thread or from the
\* receive loop) is inside `with lock` of the one lock, and no two threads
\* are inside connection.send at once.
C30_SendsUnderOneLock ==
    /\ \A x \in sending : x \in lock
    /\ Cardinality(sending) <= 1
    /\ Cardinality(lock) <= 1

\* C30 witness: one executor thread is sending while the other executor
\* thread and the receive loop both wait for the lock to send.
C30_Witness ==
    /\ \E t \in Tasks : t \in sending
    /\ \E u \in Tasks : threads[u] \in {"acquire: result", "acquire: error"}
    /\ threads[MainThread] \in {"acquire: exited", "acquire: error"}

\* ------------------------------------------ claims: the worker's receive loop
\* C31: on the exit order the worker sends one 'exited' frame, closes the
\* connection and the listener and returns, and 'exited' is the last frame
\* the worker sends, also when executor threads are still running.
C31_ExitedIsLastFrame ==
    /\ \A i \in 1..Len(frames) : frames[i].action = "exited" => i = Len(frames)
    /\ threads[MainThread] = "returned" =>
           /\ Cardinality({i \in 1..Len(frames) : frames[i].action = "exited"}) = 1
           /\ sockets.accepted \notin sockets.open
           /\ sockets.listener = "closed"

\* C32: the worker announces its port once and accepts one connection in its
\* lifetime, however that connection ends.
C32_OneConnection ==
    /\ sockets.announced <= 1
    /\ sockets.accepted <= 1

\* C33: when the receive loop has sent the error frame of an exception raised
\* while handling a message, the worker shuts down: launchListener ends and
\* the listener is closed.
C33_ErrorFrameThenShutdown ==
    [][(/\ threads[MainThread] = "send: error"
        /\ Len(frames') = Len(frames) + 1
        /\ frames'[Len(frames')].by = MainThread)
          => (/\ threads'[MainThread] \in {"returned", "crashed"}
              /\ sockets'.listener = "closed")]_vars

\* ------------------------------------------------------ claims: command scripts
\* The commands that exit with a non-zero status.
Failing == {k \in 1..Len(script.commands) : script.commands[k] # 0}

\* C34: a script made with error checks has the check lines right after
\* every command line; its commands run in order; no command runs after one
\* that exited non-zero; the script that ended ran every command and exited
\* with 0 if none failed, and otherwise stopped after the first failing one
\* and exited with a non-zero status.
C34_ChecksAbortAtFirstFailure ==
    (script.state # "none" /\ script.checks) =>
        /\ \A i \in 1..Len(script.lines) :
               script.lines[i].text = "command" =>
                   /\ i + Len(ErrorChecks(script.windows)) <= Len(script.lines)
                   /\ SubSeq(script.lines, i + 1, i + Len(ErrorChecks(script.windows)))
                          = ErrorChecks(script.windows)
        /\ Cardinality({i \in 1..Len(script.lines) : script.lines[i].text = "command"})
               = Len(script.commands)
        /\ script.ran = [k \in 1..Len(script.ran) |-> k]
        /\ \A k \in 1..(Len(script.ran) - 1) : script.commands[k] = 0
        /\ script.state = "exited" =>
               IF Failing = {}
               THEN Len(script.ran) = Len(script.commands) /\ script.exitcode = 0
               ELSE /\ Len(script.ran) = (CHOOSE k \in Failing : \A j \in Failing : k <= j)
                    /\ script.exitcode # 0

\* C34 witness: of three commands the second failed; the script ended with a
\* non-zero status after running two commands.
C34_Witness ==
    /\ script.state = "exited"
    /\ script.checks
    /\ script.commands = <<0, 1, 0>>
    /\ script.ran = <<1, 2>>
    /\ script.exitcode # 0

\* ----------------------------------------------- claims: launches in debug mode
\* C35: in debug mode, when launch() has returned, debug_ports.json has under
\* the environment's name the debug port its worker announced, and a write
\* for one environment leaves the entries of the other environments as they
\* are in the file.
C35_DebugPortRecorded ==
    /\ \A e \in LoadNames :
           debugging[e].launch = "launched" => debugPorts[e] = debugging[e].debugPort
    /\ \A e, f \in LoadNames :
           (e # f /\ debugging[e].pump = "write") => debugging[e].read[f] = debugPorts[f]

\* -------------------------------------------------- claims: a create that raises
\* C36: a create() that raises leaves the registry as it was: the name is not
\* registered by the call.
C36_RaisingCreateLeavesRegistry ==
    [][(Creates /\ call'.raised # "") => environments' = environments]_vars

\* ------------------------------------------------- claims: delete and the worker
\* C37: when delete() returns, no worker process spawned for the environment is
\* alive, a process left by a failed launch or a lost connection included.
C37_DeleteLeavesNoWorker ==
    \A t \in Threads :
        (pc[t] = "release" /\ op[t] = "delete" /\ outcome[t] = Return("None"))
            => LiveWorkers = {}

\* --------------------------------------------------- claims: exit, once and again
\* C38: exit() of an External environment returns without raising and leaves
\* the environment out of the registry, whatever the state of its worker and
\* of its connection; an exit() of an environment that has exited before
\* leaves the registry as it is.
C38_ExitAlwaysCompletes ==
    [][\A i \in InstanceIds :
          Exits(i) =>
              /\ call'.raised = ""
              /\ environments'[instances[i].name] # External(i)
              /\ (environments[instances[i].name] # External(i)
                     => environments' = environments)]_vars

\* ------------------------------------------------ claims: load and its path
\* C39: when load(name, path) returns an environment, that environment (the
\* one registered under name after the call) has the path that was passed.
C39_LoadReturnsItsPath ==
    [][\A n \in LoadNames, p \in Paths :
          (LoadNamed(n, p) /\ answered'.result = "returned")
              => registered'[n] = p]_vars

\* ------------------------------------------- claims: lines that arrive late
\* C40: the callback passed to an execute() or runScript() is invoked only
\* with lines the worker wrote during that call, however late the pump
\* hands a line over.
C40_CallbackGetsOwnLinesOnly ==
    [][(pump.at = "execution call" /\ delivered' # delivered)
          => emitted[pump.line]]_vars

====
